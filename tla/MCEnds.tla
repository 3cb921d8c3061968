------------------------------- MODULE MCEnds -------------------------------
(***************************************************************************)
(* What has to end: a server told to stop, and the start of a child under  *)
(* each kind of plan, with its sandbox.  One of the two runs, with its own *)
(* fairness, and the other stays idle.                                     *)
(***************************************************************************)
EXTENDS NetServe, Spawn

VARIABLE part
endVars == <<part, serveVars, spawnVars>>

(* One plan for each way a child is started, and one that is refused.      *)
MCPlans == {{}, {"credentials", "grants"}, {"offline", "relay", "promises"},
            {"proc", "strict", "user"}, {"unveil"}, {"unveil", "user", "idmap", "offline"},
            {"unveil", "strict", "offline", "grants", "promises", "sockets"},
            {"unveil", "strict", "offline", "promises", "nest"}, {"proc", "unveil"}}

EndsInit ==
    /\ part \in {"serve", "spawn"}
    /\ ServeInit /\ (part # "serve" => graced)
    /\ SpawnInit

ServePart(step) == part = "serve" /\ step /\ UNCHANGED <<part, spawnVars>>
SpawnPart(step) == part = "spawn" /\ step /\ UNCHANGED <<part, serveVars>>

(* Two connections that differ only in name, the first to come and to be   *)
(* accepted being c.  Where the grace ends by itself there is one signal;  *)
(* where only a signal ends it no accept fails, and no protocol raises.    *)
ServeBounds ==
    /\ \A l \in Listener : "d" \in pending'[l] => "c" \in pending'[l] \/ task'["c"] # "unused"
    /\ task'["d"] # "unused" => task'["c"] # "unused"
    /\ IF graced THEN signals' <= 1
       ELSE failing' = {} /\ \A c \in Conn : task'[c] # "reporting"

EndsNext == ServePart(ServeNext /\ ServeBounds) \/ SpawnPart(SpawnNext)

(* Fairness of NetServe and SpawnFairness, each of the part that runs.     *)
EndsFairness ==
    /\ WF_endVars(ServePart(thread # "none" /\ (Accepting \/ Stopping \/ Draining)))
    /\ \A l \in Listener : SF_endVars(ServePart(AcceptResumes(l)))
    /\ SF_endVars(ServePart(StopReported))
    /\ SF_endVars(ServePart(WaiterEnds \/ StopperRuns \/ StopperEnds \/ (stopCut /\ StopperResumes)))
    /\ SF_endVars(ServePart(WatcherStops \/ WatcherHurries))
    /\ SF_endVars(ServePart(GracePicks \/ GraceEnds))
    /\ SF_endVars(ServePart(MainResumes))
    /\ SF_endVars(ServePart(\E c \in Conn : ConnReported(c)))
    /\ WF_endVars(SpawnPart(ProcessStep)) /\ WF_endVars(SpawnPart(ParentStep)) /\ WF_endVars(SpawnPart(Unstuck))

EndsSpec == EndsInit /\ [][EndsNext]_endVars /\ EndsFairness
=============================================================================
