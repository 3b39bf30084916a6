------------------------------ MODULE VolumeID ------------------------------
(***************************************************************************)
(* The codec of volume ids, pkg/common/volid.go.  An id is                 *)
(*   len(cluster)-cluster-len(user)-user-len(name)-name                    *)
(* with lengths of four hexadecimal digits.                                *)
(*                                                                         *)
(* A text is what the code can tell of a string: its length, and the       *)
(* number that the four characters at each offset stand for, NotHex if     *)
(* they are not hexadecimal.  A substring is the span of its offsets.  The *)
(* cursor of the decoder is a uint16: offsets wrap at Word, 2^16 in the    *)
(* code.                                                                   *)
(***************************************************************************)
EXTENDS Integers

CONSTANTS
    MaxVolIDLen,  \* maxVolIDLen, 128 in the code
    Word,         \* one more than the largest cursor
    NotHex        \* hex.DecodeString fails

ASSUME VolumeIDAssumption ==
    /\ MaxVolIDLen \in Nat
    /\ Word \in Nat
    /\ MaxVolIDLen + 5 < Word
    /\ NotHex \notin Nat

\* CSIIdentifier: the lengths of its three fields, and what four characters
\* within a field or across its ends happen to stand for.
Identifiers == [cluster : Nat, user : Nat, name : Nat, chars : Nat \cup {NotHex}]

\* The span of the characters from offset i up to, not including, j.
Span(i, j) == [from |-> i, to |-> j]

-----------------------------------------------------------------------------

\* Where the three lengths stand in an encoded id.
UserAt(cid) == cid.cluster + 6
NameAt(cid) == UserAt(cid) + cid.user + 6

ClusterSpan(cid) == Span(5, 5 + cid.cluster)
UserSpan(cid) == Span(UserAt(cid) + 5, UserAt(cid) + 5 + cid.user)
NameSpan(cid) == Span(NameAt(cid) + 5, NameAt(cid) + 5 + cid.name)

\* CSIIdentifier.Len, which counts three of the five separators.
IDLen(cid) == 5 * 3 + cid.cluster + cid.user + cid.name

\* ComposeCSIID refuses the identifier.
TooLong(cid) == IDLen(cid) > MaxVolIDLen

\* The string ComposeCSIID returns for an identifier that is not too long.
ComposeCSIID(cid) ==
    [len |-> NameAt(cid) + 5 + cid.name,
     num |-> [i \in 0..(NameAt(cid) + 5 + cid.name) |->
                 CASE i = 0 -> cid.cluster
                   [] i = UserAt(cid) -> cid.user
                   [] i = NameAt(cid) -> cid.name
                   [] OTHER -> cid.chars]]

-----------------------------------------------------------------------------

\* A slice expression s[i:j] that the runtime lets pass.
InBounds(text, i, j) == i <= j /\ j <= text.len

\* Mutant: the cursor is left on the separator.
NextOnSeparator(text, cursor) ==
    LET digits == (cursor + 4) % Word
        start == (cursor + 5) % Word
        end == (start + text.num[cursor]) % Word
    IN  IF ~InBounds(text, cursor, digits) THEN [outcome |-> "panic"]
        ELSE IF text.num[cursor] = NotHex THEN [outcome |-> "invalid"]
        ELSE IF ~InBounds(text, start, end) THEN [outcome |-> "panic"]
        ELSE [outcome |-> "ok", span |-> Span(start, end), cursor |-> end]

\* next: the field at the cursor and the cursor after it.  The two slices
\* are taken without a check: one that is out of bounds panics.
NextField(text, cursor) ==
    LET digits == (cursor + 4) % Word
        start == (cursor + 5) % Word
        end == (start + text.num[cursor]) % Word
    IN  IF ~InBounds(text, cursor, digits) THEN [outcome |-> "panic"]
        ELSE IF text.num[cursor] = NotHex THEN [outcome |-> "invalid"]
        ELSE IF ~InBounds(text, start, end) THEN [outcome |-> "panic"]
        ELSE [outcome |-> "ok", span |-> Span(start, end),
              cursor |-> (end + 1) % Word]

\* DecomposeCSIID: three fields in turn; the first failure ends it.
DecomposeCSIID(text) ==
    LET c == NextField(text, 0)
        u == NextField(text, c.cursor)
        v == NextField(text, u.cursor)
    IN  IF c.outcome # "ok" THEN [outcome |-> c.outcome]
        ELSE IF u.outcome # "ok" THEN [outcome |-> u.outcome]
        ELSE IF v.outcome # "ok" THEN [outcome |-> v.outcome]
        ELSE [outcome |-> "ok", cluster |-> c.span, user |-> u.span, name |-> v.span]
=============================================================================
