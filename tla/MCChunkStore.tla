---------------------------- MODULE MCChunkStore ----------------------------
(***************************************************************************)
(* Instances of ChunkStore for TLC, with the code's own file names; and,   *)
(* beside the store, every key "a/<site>" with the site over a small       *)
(* alphabet, one rune longer at each step.                                 *)
(***************************************************************************)
EXTENDS ChunkStore, KeyCodec

CONSTANTS Alphabet, MaxLen

VARIABLE key

\* "a/x" and "a/y", which come back from their file names (see KeyCodec).
PlainKeys == {<<97, 47, 120>>, <<97, 47, 121>>}

MCFiles == {Sanitize(k) : k \in Keys}
MCFileOf == [k \in Keys |-> Sanitize(k)]
MCKeyOf == [f \in Files |-> Unsanitize(f)]

\* Of every three writes two go to the key "a/x".
MCWriteKey == [n \in Writes |-> IF n % 3 = 2 THEN CHOOSE k \in Keys : k # <<97, 47, 120>>
                                ELSE <<97, 47, 120>>]

(* '_', '/', 'a', '2', 'x', a tab, e with acute accent, the euro sign.     *)
Runes == {95, 47, 97, 50, 120, 9, 233, 8364}

User == <<97, 47>>
Grow == Len(key) < MaxLen + Len(User) /\ \E c \in Alphabet : key' = Append(key, c)

\* The keys grow while the store is unused, and the store is used with the
\* first of them.
Unused == writing = 0 /\ crashes = 0 /\ ioErrors = 0 /\ acked = {}
StoreInit == Init /\ key = User
StoreAndNames ==
    /\ StoreInit
    /\ [][ \/ Next /\ key = User /\ UNCHANGED key
           \/ Unused /\ Grow /\ UNCHANGED vars ]_<<vars, key>>

(* After a restart keyFromFilename gives back the key that sanitize turned *)
(* into a file name, for the keys without a rune outside ASCII and without *)
(* an underscore before two hex digits, and for no other key.              *)
RestoredUnlessMangled == RoundTrips(key) <=> ~Mangled(key)
=============================================================================
