----------------------------- MODULE MCStressJob -----------------------------
(* For TLC: a job file (StressJob) beside a call of the context stressor,    *)
(* which has threads of its own (ContextRing).  The two have nothing in      *)
(* common, part says which of them a behaviour is of.                        *)
EXTENDS StressJob, ContextOptions

VARIABLES
  part,
  rpc, spawns, waits, timeouts, tpc, turn, barrier, deleted, rops, stop, ring, args

Ring == INSTANCE ContextRing WITH pc <- rpc, ops <- rops

ringVars == <<rpc, spawns, waits, timeouts, tpc, turn, barrier, deleted, rops, stop, ring, args>>
bothVars == <<part, ringVars, vars>>

Of(p, A, others) == part = p /\ A /\ UNCHANGED <<part, others>>

MCInit == part \in {"job", "ring"} /\ Init /\ Ring!Init
MCNext == Of("job", Next, ringVars) \/ Of("ring", Ring!Next, vars)

\* FairSpec of each.
MCSpec ==
  /\ MCInit /\ [][MCNext]_bothVars
  /\ WF_bothVars(Of("job", MainStep, ringVars)) /\ WF_bothVars(Of("job", TimeIsUp, ringVars))
  /\ WF_bothVars(Of("job", MarginPasses, ringVars))
  /\ \A w \in Worker : WF_bothVars(Of("job", WorkerStep(w), ringVars))
  /\ WF_bothVars(Of("ring", Ring!MainStep, vars))
  /\ \A i \in Ring!Thread : WF_bothVars(Of("ring", Ring!ThreadStep(i) \/ Ring!Die(i), vars))
-----------------------------------------------------------------------------
(* Properties, stated in the two modules. *)

RingTypeOK == Ring!TypeOK
OpsWithinLimit == Ring!OpsWithinLimit
NoRingUseAfterFree == Ring!NoUseAfterFree
CleanupWithinMargin == Ring!CleanupWithinMargin

\* Both come to an end: the job file after its last line, the context stressor
\* though it may leave threads waiting in its ring (stress-context.c:155-185).
BothEnd == (part = "job" => JobFileEnds) /\ (part = "ring" => Ring!ContextReturns)
=============================================================================
