--------------------------- MODULE SelectionSpec ---------------------------
(***************************************************************************)
(* What the model search promises (spec 4.6), with no loop index, no      *)
(* running best score and no catalogue: candidates are evaluated one after *)
(* the other, the selection is at every moment the first evaluated entry  *)
(* of highest positive F1 (nothing while every F1 is 0), and the search   *)
(* either concludes, possibly after evaluating one last entry (the        *)
(* ensemble), handing out the selection, or aborts.                       *)
(***************************************************************************)
EXTENDS Naturals, Sequences

CONSTANTS
    Entry,     \* the evaluated entries: records [name, f1] with f1 \in Nat
    NoModel    \* nothing selected

VARIABLES
    evaluated, \* the entries evaluated so far, in order
    selected,  \* the current selection
    chosen,    \* the model handed out when the search concludes
    outcome    \* "running", then "done" or "raised"

avars == <<evaluated, selected, chosen, outcome>>

(* Entry k of s has the highest F1 of s and no earlier entry reaches it.   *)
IsFirstBest(s, k) ==
    /\ \A j \in 1..Len(s) : s[j].f1 <= s[k].f1
    /\ \A j \in 1..(k - 1) : s[j].f1 < s[k].f1

(* The selection rule: the first best entry, unless every F1 is 0.         *)
Best(s) ==
    IF \A j \in 1..Len(s) : s[j].f1 = 0
      THEN NoModel
      ELSE s[CHOOSE k \in 1..Len(s) : IsFirstBest(s, k)].name

Init ==
    /\ evaluated = << >>
    /\ selected = NoModel
    /\ chosen = NoModel
    /\ outcome = "running"

(* One more candidate is evaluated and the selection follows the rule.     *)
Evaluate ==
    /\ outcome = "running"
    /\ \E e \in Entry :
         /\ evaluated' = Append(evaluated, e)
         /\ selected' = Best(evaluated')
    /\ UNCHANGED <<chosen, outcome>>

(* The search concludes, after evaluating at most one last entry, and      *)
(* hands out the selection of everything evaluated.                        *)
Conclude ==
    /\ outcome = "running"
    /\ \E s \in {evaluated} \cup {Append(evaluated, e) : e \in Entry} :
         /\ evaluated' = s
         /\ selected' = Best(s)
         /\ chosen' = Best(s)
    /\ outcome' = "done"

(* The search aborts and hands out nothing.                                *)
Abort ==
    /\ outcome = "running"
    /\ outcome' = "raised"
    /\ UNCHANGED <<evaluated, selected, chosen>>

Next == Evaluate \/ Conclude \/ Abort

Spec == Init /\ [][Next]_avars

=============================================================================
