------------------------------- MODULE Catalogue -------------------------------
(***************************************************************************)
(* What publication promises to whoever searches through the aliases, while*)
(* importers of one container take turns: an index only comes into an alias*)
(* in place of the others of its container, alias after alias in the order *)
(* of configuration.rs (dataset, doctype, root), and indices are deleted   *)
(* only once the last alias is switched.  IndexPublication implements this *)
(* specification; Bragi is specified over it.                              *)
(***************************************************************************)
EXTENDS Naturals, Sequences

CONSTANTS Runs,        \* executions of generate_index, each with its index
          ContainerOf, \* the container of each run
          AliasesOf,   \* the aliases each run publishes under, in order
          AtStart      \* runs published before this history begins

VARIABLES
    served,     \* <<alias, run>>: the indices searched through each alias
    publishing, \* the runs at work
    ended       \* the runs that have published or stopped

catalogueVars == <<served, publishing, ended>>

Peers(r) == {q \in Runs \ {r} : ContainerOf[q] = ContainerOf[r]}

Init ==
    /\ served = UNION {{<<AliasesOf[r][i], r>> : i \in 1..Len(AliasesOf[r])} : r \in AtStart}
    /\ publishing = {}
    /\ ended = AtStart

\* The run goes on, or stops with this step.
GoesOn(r) ==
    \/ UNCHANGED <<publishing, ended>>
    \/ publishing' = publishing \ {r} /\ ended' = ended \cup {r}

begin(r) ==
    /\ r \notin publishing \cup ended
    /\ publishing \cap Peers(r) = {}
    /\ \/ publishing' = publishing \cup {r} /\ UNCHANGED ended
       \/ UNCHANGED publishing /\ ended' = ended \cup {r}
    /\ UNCHANGED served

SwitchedUpTo(r, n) == \A i \in 1..n : <<AliasesOf[r][i], r>> \in served

\* Mutant: the peers are taken out of the alias by a request of their own.
switch_in_two(r, n) ==
    /\ r \in publishing
    /\ SwitchedUpTo(r, n - 1)
    /\ LET out == {x \in served : x[1] = AliasesOf[r][n] /\ x[2] \in Peers(r)}
       IN  IF out # {} THEN served' = served \ out ELSE served' = served \cup {<<AliasesOf[r][n], r>>}
    /\ GoesOn(r)

\* One request puts the run's index in the alias and takes its peers out of it.
switch(r, n) ==
    /\ r \in publishing
    /\ SwitchedUpTo(r, n - 1)
    /\ served' = {x \in served : x[1] # AliasesOf[r][n] \/ x[2] \notin Peers(r)}
                 \cup {<<AliasesOf[r][n], r>>}
    /\ GoesOn(r)

\* A peer's index is deleted, and with it what is left of it in any alias.
delete(r, q) ==
    /\ r \in publishing
    /\ SwitchedUpTo(r, Len(AliasesOf[r]))
    /\ q \in Peers(r)
    /\ served' = {x \in served : x[2] # q}
    /\ GoesOn(r)

end(r) ==
    /\ r \in publishing
    /\ publishing' = publishing \ {r} /\ ended' = ended \cup {r}
    /\ UNCHANGED served

Work(r) ==
    \/ \E n \in 1..Len(AliasesOf[r]) : switch(r, n)
    \/ \E q \in Peers(r) : delete(r, q)
    \/ end(r)

Next == \E r \in Runs : begin(r) \/ Work(r)

Spec == Init /\ [][Next]_catalogueVars
===============================================================================
