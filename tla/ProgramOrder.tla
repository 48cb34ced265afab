---------------------------- MODULE ProgramOrder ----------------------------
(***************************************************************************)
(* What recording one thread promises, whatever graph it builds: a shared  *)
(* event comes after every shared event recorded before it, except those   *)
(* of an arm that excludes its own.                                        *)
(***************************************************************************)
EXTENDS Naturals, SequencesExt

CONSTANTS
  Branch,     \* identities of branches
  MaxShared   \* the most shared events one operation records

VARIABLES
  open,     \* the branches the program is in, outermost first, with the
            \* side it takes: a sequence of [branch, side]
  arms,     \* arms[e] is the value of open when shared event e was recorded
  before    \* the strict program order on the shared events

povars == <<open, arms, before>>

(* Events recorded under p and under q exclude each other if they sit on   *)
(* different sides of one branch.                                          *)
Exclusive(p, q) ==
  \E a \in Range(p), b \in Range(q) : a.branch = b.branch /\ a.side # b.side

Fresh(br) ==
  \A p \in Range(arms) \union {open} : \A a \in Range(p) : a.branch # br

Init == open = <<>> /\ arms = <<>> /\ before = {}

(* Shared events are numbered in the order in which they are recorded.     *)
Recording(n) ==
  LET all == arms \o [i \in 1 .. n |-> open]
      new == Len(arms) + 1 .. Len(all)
  IN  /\ arms' = all
      /\ before' = before \union
           { c \in (DOMAIN all) \X new : c[1] < c[2] /\ ~Exclusive(all[c[1]], all[c[2]]) }

Record(n) == Recording(n) /\ UNCHANGED open

(* The reads of a condition are recorded on the way into its branch.       *)
Then(br, n) ==
  /\ Fresh(br)
  /\ Recording(n)
  /\ open' = Append(open, [branch |-> br, side |-> "then"])

Else ==
  /\ open # <<>> /\ Last(open).side = "then"
  /\ open' = [open EXCEPT ![Len(open)].side = "else"]
  /\ UNCHANGED <<arms, before>>

End ==
  /\ open # <<>>
  /\ open' = Front(open)
  /\ UNCHANGED <<arms, before>>

Next ==
  \/ \E n \in 1 .. MaxShared : Record(n)
  \/ \E br \in Branch, n \in 0 .. MaxShared : Then(br, n)
  \/ Else
  \/ End

Spec == Init /\ [][Next]_povars
=============================================================================
