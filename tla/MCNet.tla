------------------------------- MODULE MCNet --------------------------------
(***************************************************************************)
(* What tasks wait on, and what they wait for: the tables of the loop, a   *)
(* server, connections, lookups, sockets, transfers, children and the      *)
(* connector.  They share no state, so one runs at a time, from its own    *)
(* initial states, and the others stay idle.                               *)
(***************************************************************************)
EXTENDS PollTimers, PollWatch, NetServe, Lookup, Sockets, Http, Connection, Children, MCConnector

VARIABLE part
tables == <<timerVars, watchVars>>
partVars == <<serveVars, lookupVars, socketVars, httpVars, connVars, childVars, connectorVars>>
netVars == <<part, tables, partVars>>

MCServers == <<"a", "b", "c">>

Passed(rights, n) == [rights |-> rights, n |-> n]
MCMessages ==
    [marker : {0, 1}, artifact : BOOLEAN,
     parts : {<<>>, <<Passed(TRUE, 1)>>, <<Passed(TRUE, 2)>>, <<Passed(TRUE, 1), Passed(TRUE, 1)>>,
              <<Passed(TRUE, 3), Passed(TRUE, 1)>>, <<Passed(FALSE, 1), Passed(TRUE, 2)>>}]

Plain(event) == [event |-> event, data |-> << >>]
Bytes(d) == [event |-> "data", data |-> d]
MCScripts ==
    {<<Plain("interim"), Plain("final"), Bytes(<<1, 2>>), Bytes(<<3, 4>>), Bytes(<<5>>), Plain("trailer"), Plain("end")>>,
     <<Plain("redirect"), Bytes(<<9>>), Plain("end"), Plain("final"), Bytes(<<1>>), Plain("fail")>>}
MCRootRows == <<[id |-> 1, after |-> 0, reads |-> TRUE], [id |-> 2, after |-> 5, reads |-> TRUE]>>
MCRevoked == <<[kind |-> "serial", name |-> 1, value |-> 7], [kind |-> "key", name |-> 3, value |-> 8]>>
Crt(id, issuer, serial, key, issued) ==
    [id |-> id, issuer |-> issuer, serial |-> serial, subject |-> id, key |-> key, issued |-> issued]
MCChains ==
    {<<Crt(1, 1, 1, 1, 1), Crt(4, 1, 2, 2, 6)>>, <<Crt(2, 2, 1, 1, 1), Crt(4, 2, 2, 2, 6)>>,
     <<Crt(2, 2, 1, 1, 1), Crt(5, 2, 2, 2, 5)>>, <<Crt(2, 2, 1, 1, 1)>>,
     <<Crt(1, 1, 1, 1, 1), Crt(6, 1, 7, 2, 6)>>,
     <<Crt(1, 1, 1, 1, 1), Crt(3, 1, 1, 8, 6), Crt(4, 3, 1, 1, 1)>>,
     <<Crt(1, 1, 1, 1, 1), Crt(3, 1, 1, 9, 6), Crt(4, 3, 1, 1, 1)>>}

Parts == {"timers", "watch", "serve", "connection", "lookup", "listen", "rights", "trust", "transfers",
          "children", "connector"}

NetInit ==
    /\ part \in Parts
    /\ TimersInit /\ WatchInit /\ ServeInit /\ LookupInit /\ ConnectionInit /\ ChildrenInit /\ ConnectorInit
    /\ part = "rights" \/ msg = CHOOSE m \in Messages : TRUE
    /\ SocketInit
    /\ HttpInit(part = "transfers")

(* Two connections, tasks, transfers, children or pids that differ only in *)
(* name: the first accepted is c, the first to call u1, the first opened   *)
(* t1, the first started h1, under pid 1, and the first to ask Asker.      *)
Asker == CHOOSE t \in Tasks : TRUE
FirstNamed ==
    /\ task'["d"] # "unused" => task'["c"] # "unused"
    /\ reads' + Len(writes') = 1 => user'["u2"] = IdleUser
    /\ tr'["t1"].at = "unmade" => tr'["t2"].at = "unmade" /\ op'.who # "t2"
    /\ stage'["h1"] = "none" => stage'["h2"] = "none"
    /\ pid_of'["h1"] \in {0, 1}
    /\ ask_count' = 1 => \A t \in Tasks \ {Asker} : caller'[t] = IdleTask

NetNext ==
    /\ UNCHANGED part
    /\ \/ part = "timers" /\ TimersNext /\ UNCHANGED <<watchVars, partVars>>
       \/ part = "watch" /\ WatchNext /\ UNCHANGED <<timerVars, partVars>>
       \/ /\ UNCHANGED tables
          /\ \/ part = "serve" /\ ServeNext /\ UNCHANGED <<lookupVars, socketVars, httpVars, connVars, childVars, connectorVars>>
             \/ part = "lookup" /\ LookupNext /\ UNCHANGED <<serveVars, socketVars, httpVars, connVars, childVars, connectorVars>>
             \/ /\ \/ part = "listen" /\ ListenNext
                   \/ part = "rights" /\ RightsNext
                /\ UNCHANGED <<serveVars, lookupVars, httpVars, connVars, childVars, connectorVars>>
             \/ /\ \/ part = "trust" /\ TrustNext
                   \/ part = "transfers" /\ TransferNext
                /\ UNCHANGED <<serveVars, lookupVars, socketVars, connVars, childVars, connectorVars>>
             \/ part = "connection" /\ ConnectionNext /\ UNCHANGED <<serveVars, lookupVars, socketVars, httpVars, childVars, connectorVars>>
             \/ part = "connector" /\ ConnectorNext /\ UNCHANGED <<serveVars, lookupVars, socketVars, httpVars, connVars, childVars>>
             \/ part = "children" /\ ChildrenNext /\ UNCHANGED <<serveVars, lookupVars, socketVars, httpVars, connVars, connectorVars>>
    /\ FirstNamed

NetSpec == NetInit /\ [][NetNext]_netVars
=============================================================================
