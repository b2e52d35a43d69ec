---------------------------- MODULE MCInputEpoch ----------------------------
(* Symmetry and a view for TLC.  Inputs, counts and data versions only grow *)
(* and are only compared, so the view keeps how they compare with the       *)
(* present ones, and drops what no later comparison can find equal.         *)
EXTENDS InputEpoch, TLC

Symmetry == Permutations(Jobs) \cup Permutations(Readers)

\* The reader may still register its pin.
Viable(r) ==
  CASE rpc[r] = "start"  -> FALSE
    [] rpc[r] = "epoch1" -> rCounts[r].ext = ext
    [] rpc[r] = "epoch2" -> rCounts[r].epoch = epoch
    [] OTHER             -> rCounts[r] = [ext |-> ext, epoch |-> epoch]

\* The inputs of the pins with these counts, by their age.
PinnedAt(counts) == {inputs - p.inputs : p \in {q \in pins : q.counts = counts}}

LiveState ==
  <<foreign, own, epoch, dvSeen = foreign, probeDv = ProbeDv,
    wpc, write, wpc = "absorbing" /\ seen = ProbeDv,
    jpc, [j \in Jobs |-> jpc[j] # "start" /\ jEpoch[j] = epoch],
    [j \in Jobs |-> jpc[j] \in {"computed", "applying"} /\ jInputs[j] = inputs],
    rpc, {r \in Readers : Viable(r)},
    {<<r, q>> \in Readers \X Readers :
       Viable(r) /\ Viable(q) /\ rCounts[r].ext = rCounts[q].ext},
    {r \in Readers : Viable(r) /\ rCounts[r].ext = ext},
    [r \in Readers |-> IF Viable(r) /\ rpc[r] \in {"count2", "epoch2"}
                       THEN inputs - rInputs[r] ELSE 0],
    [r \in Readers |-> IF Viable(r) /\ rpc[r] = "epoch2"
                       THEN PinnedAt(rCounts[r]) ELSE {}],
    PinnedAt([ext |-> ext, epoch |-> epoch])>>
=============================================================================
