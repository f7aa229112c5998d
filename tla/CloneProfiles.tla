--------------------------- MODULE CloneProfiles ---------------------------
(***************************************************************************)
(* The profiles a Proxmox VM is cloned with: what LoadCloneProfiles admits *)
(* and what is sent to Proxmox for one VM.  A value is a sequence of       *)
(* tokens; "host" and "key" stand for the words hostname and               *)
(* ssh_public_key, "bridge=" for itself, and "text" for any other word.    *)
(***************************************************************************)
EXTENDS Integers, Sequences, SequencesExt, FiniteSetsExt

Open == "{"
Close == "}"
Space == " "
Tokens == {Open, Close, Space, "host", "key", "bridge=", "text"}
Supported == {<<"host">>, <<"key">>}

\* strings.Index(s, tt): where the token first stands twice, or 0.
Index(s, token) ==
    LET found == {i \in 1..(Len(s) - 1) : s[i] = token /\ s[i + 1] = token}
    IN  IF found = {} THEN 0 ELSE Min(found)

Unbraced(s) == \A i \in DOMAIN s : s[i] # Open

\* strings.TrimSpace.
TrimSpace(s) ==
    LET inner == {i \in DOMAIN s : s[i] # Space}
    IN  IF inner = {} THEN <<>> ELSE SubSeq(s, Min(inner), Max(inner))

From(s, i) == SubSeq(s, i, Len(s))

\* What the loops of validatePlaceholders and renderProfileValue cut a value
\* into: texts, placeholders, and a rest that opens and never closes one.
Pieces[value \in Seq(Tokens)] ==
    LET start == Index(value, Open)
        after == From(value, start + 2)
        end == Index(after, Close)
    IN  IF start = 0 THEN <<[is |-> "text", tokens |-> value]>>
        ELSE IF end = 0
          THEN <<[is |-> "text", tokens |-> SubSeq(value, 1, start - 1)],
                 [is |-> "open", tokens |-> From(value, start)]>>
        ELSE <<[is |-> "text", tokens |-> SubSeq(value, 1, start - 1)],
               [is |-> "placeholder", tokens |-> SubSeq(after, 1, end - 1)]>>
             \o Pieces[From(after, end + 2)]

\* Bug: the loop is left after the first placeholder.
ValidateFirstPlaceholder(value) ==
    LET pieces == Pieces[value]
    IN  Len(pieces) > 1 =>
            pieces[2].is = "placeholder" /\ TrimSpace(pieces[2].tokens) \in Supported

ValidatePlaceholders(value) ==
    \A i \in DOMAIN Pieces[value] :
        LET piece == Pieces[value][i]
        IN  /\ piece.is # "open"
            /\ piece.is = "placeholder" => TrimSpace(piece.tokens) \in Supported

\* One piece of the value for a VM.  A placeholder that is not known is kept.
RenderedPiece(piece, vm) ==
    LET word == TrimSpace(piece.tokens)
    IN  CASE piece.is # "placeholder" -> piece.tokens
          [] piece.is = "placeholder" /\ word = <<"host">> -> vm.hostname
          [] piece.is = "placeholder" /\ word = <<"key">> -> vm.key
          [] OTHER -> <<Open, Open>> \o piece.tokens \o <<Close, Close>>

Render(value, vm) ==
    FlattenSeq([i \in DOMAIN Pieces[value] |-> RenderedPiece(Pieces[value][i], vm)])

\* The names that strings.TrimSpace leaves nothing of, and the keys that begin
\* with ipconfig.
Blank == {"", " "}
IPConfigs == {"ipconfig0", "ipconfig1"}

ValidateProfileConfig(key, value) ==
    /\ key \notin {"cipublickey", "ciname"}
    /\ key \in IPConfigs => \A i \in DOMAIN value : value[i] # "bridge="
    /\ ValidatePlaceholders(value)

\* A profile: its template, and one key of its config with its value.
Admitted(name, profile) ==
    /\ name \notin Blank
    /\ profile.template > 0
    /\ profile.cloneMode \in {"", "linked", "full"}
    /\ ValidateProfileConfig(profile.key, profile.value)

\* LoadCloneProfiles: one bad profile, or none at all, and the server exits.
LoadCloneProfiles(profiles) ==
    /\ DOMAIN profiles # {}
    /\ \A name \in DOMAIN profiles : Admitted(name, profiles[name])
=============================================================================
