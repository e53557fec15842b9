----------------------------- MODULE ImportLedger -----------------------------
(***************************************************************************)
(* What a resumable import promises to whoever looks at the job: a ledger  *)
(* in which the rows of the file are decided in order and for good, and a  *)
(* final state that agrees with the verdicts.  No worker, message, crash   *)
(* or transaction appears here.                                            *)
(***************************************************************************)
EXTENDS Integers

CONSTANT Reopened   \* final states that a later run or failure opens again

VARIABLES
    total,     \* rows of the file, constant
    pos,       \* rows 1 .. pos are decided
    verdict,   \* of each row
    state

vars == <<total, pos, verdict, state>>

Init ==
    /\ total \in Nat /\ pos = 0
    /\ verdict = [r \in 1 .. total |-> "open"]
    /\ state = "open"

\* Rows pos+1 .. p get their verdict, the others keep theirs.
DecideUpTo(p) ==
    /\ p \in pos .. total
    /\ pos' = p
    /\ \A r \in 1 .. total :
          IF r \in pos + 1 .. p THEN verdict'[r] \in {"ok", "bad"}
                               ELSE verdict'[r] = verdict[r]
    /\ DOMAIN verdict' = DOMAIN verdict
    /\ UNCHANGED total

Advance ==
    /\ state = "open"
    /\ \E p \in 0 .. total : DecideUpTo(p)
    /\ UNCHANGED state

Close ==
    /\ state = "open"
    /\ DecideUpTo(total)
    /\ state' = IF \E r \in 1 .. total : verdict'[r] = "bad" THEN "partial" ELSE "complete"

\* What comes after the final state opens it again, and decides nothing anew.
Reopen ==
    /\ state \in Reopened /\ state' = "open"
    /\ UNCHANGED <<total, pos, verdict>>

Next == Advance \/ Close \/ Reopen

Spec == Init /\ [][Next]_vars
=============================================================================
