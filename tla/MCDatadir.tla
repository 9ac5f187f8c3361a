------------------------------ MODULE MCDatadir ------------------------------
(***************************************************************************)
(* Datadir with two datadirs, three entries in the table of defaults (one  *)
(* with $USER) and the layouts bitcoind leaves at the stages of its life.  *)
(***************************************************************************)
EXTENDS Datadir

CONSTANTS d1, d2, u1

(* Not there; just created; without optional indexes; with an empty        *)
(* directory for them; with every index; with a xor.dat whose writing was  *)
(* interrupted.                                                            *)
MCLayouts ==
    {[present |-> FALSE, subs |-> {}, xor |-> ABSENT],
     [present |-> TRUE, subs |-> {}, xor |-> ABSENT],
     [present |-> TRUE, subs |-> {"blocks"}, xor |-> ABSENT],
     [present |-> TRUE, subs |-> {"blocks", "indexes"}, xor |-> ABSENT],
     [present |-> TRUE, subs |-> {"blocks", "indexes", "txindex"}, xor |-> SHORT]}
    \cup {[present |-> TRUE, subs |-> SubDirs, xor |-> k] : k \in Keys}

MCDefaultDatadirs ==
    <<[perUser |-> TRUE, literal |-> NONE, home |-> [u \in Users |-> d2]],
      [perUser |-> FALSE, literal |-> d1, home |-> [u \in Users |-> d1]],
      [perUser |-> FALSE, literal |-> d2, home |-> [u \in Users |-> d2]]>>

=============================================================================
