---------------------------- MODULE Publication ----------------------------
(***************************************************************************)
(* What publishing promises, whatever fails and however the calls of the   *)
(* threads interleave.  An entry changes only in two ways:                 *)
(*                                                                         *)
(*   - it becomes a report, one a writer had got from the source for a     *)
(*     user at one moment, whole and as it was.  A writer that looks       *)
(*     gives up what it still held, and uses each report at most once;     *)
(*   - it is withdrawn by a writer that holds no report of the name.       *)
(*                                                                         *)
(* The writers may all stop at once, with what they hold.  There is no     *)
(* store that opens and closes, no retry, no event and no failure: a       *)
(* writer that gets nowhere has dropped its reports.                       *)
(***************************************************************************)
CONSTANTS Writer,   \* who publishes
          Name,     \* of what
          Asker,    \* for whom the source is asked
          Nothing   \* no report, or no entry

VARIABLES truth,    \* truth[u][n]: what the source says of n for u
          entry,    \* entry[n]: what is published of n
          held      \* held[w][n]: the reports of n that w has yet to use

publication == <<truth, entry, held>>

NoReports == [n \in Name |-> {}]

\* Some of what the source says for u, as reports.
Listing(u, N) == [n \in Name |-> IF n \in N THEN {truth[u][n]} \ {Nothing} ELSE {}]

Init == held = [w \in Writer |-> NoReports]

\* The source, or its choice of what it says, moves on.
Change == UNCHANGED <<entry, held>>

\* w asks about the names in N, for u.
Look(w) ==
    /\ held[w] = NoReports
    /\ \E u \in Asker, N \in SUBSET Name : held' = [held EXCEPT ![w] = Listing(u, N)]
    /\ UNCHANGED <<truth, entry>>

\* w publishes its report of n, or fails to, and is done with n.
Publish(w, n) ==
    /\ \E r \in held[w][n] : entry' \in {entry, [entry EXCEPT ![n] = r]}
    /\ held' = [held EXCEPT ![w][n] = {}]
    /\ UNCHANGED truth

\* w withdraws the names in N, no report of which it holds, and drops what it
\* will not publish of the others.
Withdraw(w, N) ==
    /\ \A n \in N : held[w][n] = {}
    /\ entry' = [n \in Name |-> IF n \in N THEN Nothing ELSE entry[n]]
    /\ \E K \in SUBSET Name :
         held' = [held EXCEPT ![w] = [n \in Name |-> IF n \in K THEN held[w][n] ELSE {}]]
    /\ UNCHANGED truth

\* The writers stop, and nothing of what they held is published any more.
Vanish ==
    /\ held' = [w \in Writer |-> NoReports]
    /\ UNCHANGED <<truth, entry>>

Next == \/ Change
        \/ Vanish
        \/ \E w \in Writer : \/ Look(w)
                             \/ \E n \in Name : Publish(w, n)
                             \/ \E N \in SUBSET Name : Withdraw(w, N)

Spec == Init /\ [][Next]_publication
=============================================================================
