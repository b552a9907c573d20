----------------------------- MODULE AttemptLedger -----------------------------
(***************************************************************************)
(* What the attempt service promises, with no clock, network, drafts or    *)
(* edits: a user has at most one attempt open and at most MaxAttempts in   *)
(* all; an attempt is graded once, against the exam as it was on opening,  *)
(* and the grade then stands for ever.                                     *)
(***************************************************************************)
EXTENDS Integers, FiniteSets

CONSTANTS Users, Attempts, Questions, Answers, Canonical, PassScores,
          Durations, MaxAttempts

VARIABLE ledger  \* ledger[a]: the promise about attempt a

Sheet   == UNION {[Q -> Answers] : Q \in SUBSET Questions}
Content == [key : Sheet, passScore : PassScores, duration : Durations]

Free == [state |-> "free"]
Open(u, content) == [state |-> "open", user |-> u, content |-> content]

Correct(sheet, content) ==
  {q \in DOMAIN sheet \cap DOMAIN content.key :
      Canonical[sheet[q]] = Canonical[content.key[q]]}

ScoreOf(sheet, content) ==
  LET n == Cardinality(DOMAIN content.key)
  IN  IF n = 0 THEN 0
      ELSE (200 * Cardinality(Correct(sheet, content)) + n) \div (2 * n)

Grade(entry, sheet) ==
  [state |-> "graded", user |-> entry.user, content |-> entry.content,
   answers |-> sheet,
   score |-> ScoreOf(sheet, entry.content),
   passed |-> ScoreOf(sheet, entry.content) >= entry.content.passScore]

Of(u) == {a \in Attempts : ledger[a] # Free /\ ledger[a].user = u}

Init == ledger = [a \in Attempts |-> Free]

(* A user with no open attempt opens one of those still allowed. *)
OpenAttempt(u, a, content) ==
  /\ ledger[a] = Free
  /\ \A b \in Of(u) : ledger[b].state # "open"
  /\ Cardinality(Of(u)) < MaxAttempts
  /\ ledger' = [ledger EXCEPT ![a] = Open(u, content)]

(* Some open attempts are graded; everything else stays as it is. *)
GradeAttempts ==
  /\ DOMAIN ledger' = Attempts
  /\ \A a \in Attempts :
       \/ ledger'[a] = ledger[a]
       \/ /\ ledger[a].state = "open"
          /\ \E sheet \in Sheet : ledger'[a] = Grade(ledger[a], sheet)

Next == \/ \E u \in Users, a \in Attempts, content \in Content :
             OpenAttempt(u, a, content)
        \/ GradeAttempts

Spec == Init /\ [][Next]_ledger
=============================================================================
