----------------------------- MODULE PathMonitor -----------------------------
(***************************************************************************)
(* ag::utils::NetworkMonitorImpl on Apple systems.  The path monitor of    *)
(* the system (external) calls the update handler on the dispatch queue    *)
(* that start() creates, while the application calls start(), stop() and   *)
(* get_default_interface() from a thread of its own.  Nothing locks the    *)
(* members that both of them use.                                          *)
(***************************************************************************)
EXTENDS Naturals, Sequences

CONSTANTS
    PathInterfaces, \* what interfaces a path may list, by name
    Tunnels,        \* the names that start with utun or ipsec
    NoName,         \* the empty name
    NoPath,         \* nullptr
    Racing,         \* does the application call while an update is being handled?
    MaxPaths,       \* bound: changes of the path
    MaxMonitors     \* bound: calls of start()

ASSUME PathMonitorAssumption ==
    /\ \A list \in PathInterfaces : \A i \in DOMAIN list : list[i] # NoName
    /\ NoPath \notin [interfaces : PathInterfaces, satisfied : BOOLEAN]
    /\ Racing \in BOOLEAN
    /\ MaxPaths \in Nat /\ MaxMonitors \in Nat

VARIABLES
    path_now,       \* the path of the system
    path_changes,
    made,           \* path monitors made so far
    m_nw_path_monitor,  \* the number of the one in use; 0 is nullptr
    updates,        \* for each monitor, the paths its dispatch queue has to hand over
    block,          \* for each monitor, where its update handler stands
    group,          \* for each monitor, the dispatch group start() waits for
    m_current_path,
    path_refs,      \* references to paths that the object holds
    m_first_update_done,
    m_name,         \* m_if_name
    app,            \* where the application stands
    believed,       \* the default interface, as the application was told or has read
    asked,          \* the monitor in use when it last read
    faults          \* what the program did that has no defined outcome

pathVars == <<path_now, path_changes, made, m_nw_path_monitor, updates, block, group,
              m_current_path, path_refs, m_first_update_done, m_name, app, believed, asked, faults>>

systemVars == <<path_now, path_changes>>

Monitors == 1 .. MaxMonitors

PathKinds == [interfaces : PathInterfaces, satisfied : BOOLEAN]

Blocks == [at : {"idle", "released", "retained"}, path : PathKinds \cup {NoPath},
           old_first_update_done : BOOLEAN]

IdleBlock == [at |-> "idle", path |-> NoPath, old_first_update_done |-> FALSE]

PathInit ==
    /\ path_now \in PathKinds
    /\ path_changes = 0
    /\ made = 0
    /\ m_nw_path_monitor = 0
    /\ updates = [g \in Monitors |-> <<>>]
    /\ block = [g \in Monitors |-> IdleBlock]
    /\ group = [g \in Monitors |-> "none"]
    /\ m_current_path = NoPath
    /\ path_refs = 0
    /\ m_first_update_done = FALSE
    /\ m_name = NoName
    /\ app = "idle"
    /\ believed = NoName
    /\ asked = 0
    /\ faults = {}

-----------------------------------------------------------------------------
(* The system *)

PathChanges ==
    /\ path_changes < MaxPaths
    /\ path_changes' = path_changes + 1
    /\ path_now' \in PathKinds \ {path_now}
    /\ updates' = [g \in Monitors |->
                      IF g = m_nw_path_monitor THEN Append(updates[g], path_now') ELSE updates[g]]
    /\ UNCHANGED <<made, m_nw_path_monitor, block, group, m_current_path, path_refs,
                   m_first_update_done, m_name, app, believed, asked, faults>>

-----------------------------------------------------------------------------
(* The update handler *)

\* The first interface that is no tunnel.
get_interface_name(path) ==
    LET others == SelectSeq(path.interfaces, LAMBDA name : name \notin Tunnels)
    IN  IF others = <<>> THEN NoName ELSE Head(others)

\* nw_release of the path held so far.
ReleasePath(g) ==
    /\ block[g].at = "idle" /\ updates[g] # <<>>
    /\ block' = [block EXCEPT ![g] = [@ EXCEPT !.at = "released", !.path = Head(updates[g])]]
    /\ updates' = [updates EXCEPT ![g] = Tail(@)]
    /\ IF m_current_path # NoPath
       THEN /\ path_refs' = IF path_refs > 0 THEN path_refs - 1 ELSE 0
            /\ faults' = IF path_refs > 0 THEN faults ELSE faults \cup {"path released twice"}
       ELSE UNCHANGED <<path_refs, faults>>
    /\ UNCHANGED <<systemVars, made, m_nw_path_monitor, group, m_current_path,
                   m_first_update_done, m_name, app, believed, asked>>

\* nw_retain of the new one.
RetainPath(g) ==
    /\ block[g].at = "released"
    /\ m_current_path' = block[g].path
    /\ path_refs' = path_refs + 1
    /\ block' = [block EXCEPT ![g].at = "retained",
                              ![g].old_first_update_done = m_first_update_done]
    /\ UNCHANGED <<systemVars, made, m_nw_path_monitor, updates, group, m_first_update_done,
                   m_name, app, believed, asked, faults>>

\* The application is called for a lost network every time, for a connected one when
\* the interface is another one.
handle_path_change(name, is_satisfied) ==
    /\ believed' = CASE ~is_satisfied -> NoName
                     [] is_satisfied /\ m_name # name -> name
                     [] OTHER -> believed
    /\ m_name' = IF is_satisfied THEN name ELSE NoName

\* Faulty variant: the name is that of the first path for ever.
changed_handler_once ==
    /\ m_first_update_done' = TRUE
    /\ m_name' = IF m_first_update_done THEN m_name ELSE get_interface_name(m_current_path)
    /\ UNCHANGED believed

changed_handler ==
    LET name == get_interface_name(m_current_path)
    IN  IF m_first_update_done
        THEN /\ handle_path_change(name, m_current_path.satisfied)
             /\ UNCHANGED m_first_update_done
        ELSE /\ m_name' = name
             /\ m_first_update_done' = TRUE
             /\ UNCHANGED believed

EndsWait(g) == ~block[g].old_first_update_done /\ m_first_update_done'

\* changed_handler, and the end of the wait in start() when it was the first one.
UpdateDone(g) ==
    /\ block[g].at = "retained"
    /\ changed_handler
    /\ block' = [block EXCEPT ![g] = IdleBlock]
    /\ IF EndsWait(g)
       THEN /\ group' = [group EXCEPT ![g] = IF @ = "entered" THEN "left" ELSE @]
            /\ faults' = IF group[g] = "entered" THEN faults ELSE faults \cup {"group left twice"}
       ELSE UNCHANGED <<group, faults>>
    /\ UNCHANGED <<systemVars, made, m_nw_path_monitor, updates, m_current_path, path_refs, app,
                   asked>>

-----------------------------------------------------------------------------
(* The application *)

is_running == m_nw_path_monitor # 0

\* No update is being handled, or the application does not care.
MayCall == Racing \/ \A g \in Monitors : block[g].at = "idle" /\ updates[g] = <<>>

\* start(), up to the wait for the first update.
StartMonitor(next) ==
    /\ ~is_running /\ made < MaxMonitors
    /\ made' = made + 1
    /\ m_nw_path_monitor' = made + 1
    /\ group' = [group EXCEPT ![made + 1] = "entered"]
    /\ updates' = [updates EXCEPT ![made + 1] = <<path_now>>]
    /\ app' = next
    /\ UNCHANGED <<systemVars, block, m_current_path, path_refs, m_first_update_done, m_name,
                   believed, asked, faults>>

start == app = "idle" /\ MayCall /\ StartMonitor("starting")

\* No path monitor, or no dispatch queue: nothing is kept.
StartRefused ==
    /\ app = "idle" /\ MayCall /\ ~is_running
    /\ UNCHANGED pathVars

\* dispatch_group_wait returns.
StartReturn ==
    /\ app \in {"starting", "opening"}
    /\ group[m_nw_path_monitor] = "left"
    /\ group' = [group EXCEPT ![m_nw_path_monitor] = "released"]
    /\ app' = IF app = "starting" THEN "idle" ELSE "reading"
    /\ UNCHANGED <<systemVars, made, m_nw_path_monitor, updates, block, m_current_path,
                   path_refs, m_first_update_done, m_name, believed, asked, faults>>

\* What is left of a monitor that was cancelled is the handler that is running.
CancelMonitor ==
    /\ updates' = [updates EXCEPT ![m_nw_path_monitor] = <<>>]
    /\ m_nw_path_monitor' = 0

\* Faulty variant: the flag of the first update stays set.
FirstUpdateAfterStop_kept == m_first_update_done

FirstUpdateAfterStop == FALSE

stop_path_monitor ==
    /\ app = "idle" /\ MayCall /\ is_running
    /\ CancelMonitor
    /\ m_first_update_done' = FirstUpdateAfterStop
    /\ m_name' = NoName
    /\ UNCHANGED <<systemVars, made, block, group, m_current_path, path_refs, app, believed,
                   asked, faults>>

\* The name of the path held, when it is one.
ReadPath ==
    IF m_current_path # NoPath /\ path_refs > 0
    THEN believed' = get_interface_name(m_current_path) /\ UNCHANGED faults
    ELSE /\ faults' = faults \cup {IF m_current_path = NoPath THEN "no path" ELSE "path released"}
         /\ UNCHANGED believed

\* get_default_interface() of a running monitor.
get_default_interface ==
    /\ app = "idle" /\ MayCall /\ is_running
    /\ ReadPath
    /\ asked' = m_nw_path_monitor
    /\ UNCHANGED <<systemVars, made, m_nw_path_monitor, updates, block, group, m_current_path,
                   path_refs, m_first_update_done, m_name, app>>

\* Otherwise it starts the monitor, reads, and stops it.
StartToRead == app = "idle" /\ MayCall /\ StartMonitor("opening")

ReadAndStop ==
    /\ app = "reading" /\ MayCall
    /\ ReadPath
    /\ CancelMonitor
    /\ m_first_update_done' = FirstUpdateAfterStop
    /\ m_name' = NoName
    /\ app' = "idle"
    /\ UNCHANGED <<systemVars, made, block, group, m_current_path, path_refs, asked>>

\* The same when the start is refused: the path left by an earlier monitor is read.
ReadRefused ==
    /\ app = "idle" /\ MayCall /\ ~is_running
    /\ ReadPath
    /\ UNCHANGED <<systemVars, made, m_nw_path_monitor, updates, block, group, m_current_path,
                   path_refs, m_first_update_done, m_name, app, asked>>

-----------------------------------------------------------------------------

Update == \E g \in Monitors : ReleasePath(g) \/ RetainPath(g) \/ UpdateDone(g)

Calls == start \/ StartRefused \/ stop_path_monitor \/ get_default_interface \/ StartToRead \/ ReadRefused

PathNext == PathChanges \/ Update \/ Calls \/ StartReturn \/ ReadAndStop

PathSpec == PathInit /\ [][PathNext]_pathVars

\* The dispatch queue runs its blocks, and a call that can go on does.
PathFairness == WF_pathVars(Update) /\ WF_pathVars(StartReturn) /\ WF_pathVars(ReadAndStop)

FairPathSpec == PathSpec /\ PathFairness

-----------------------------------------------------------------------------

PathTypeOK ==
    /\ path_now \in PathKinds
    /\ made \in 0 .. MaxMonitors /\ m_nw_path_monitor \in 0 .. MaxMonitors
    /\ updates \in [Monitors -> Seq(PathKinds)]
    /\ block \in [Monitors -> Blocks]
    /\ group \in [Monitors -> {"none", "entered", "left", "released"}]
    /\ m_current_path \in PathKinds \cup {NoPath}
    /\ path_refs \in Nat
    /\ m_first_update_done \in BOOLEAN
    /\ app \in {"idle", "starting", "opening", "reading"}
    /\ asked \in 0 .. MaxMonitors

\* start() waits for the first update without a timeout.  The update ends the wait,
\* after a restart too.
StartReturns == app \in {"starting", "opening"} ~> app \notin {"starting", "opening"}

\* No dispatch group is left by more handlers than entered it, and no path is released
\* twice or read after its release.  (A refused start() makes get_default_interface()
\* enumerate a null path: that fault is not one of the handler's.)
NoRaceFault == faults \subseteq {"no path"}

\* However often it is started, the object holds the path it names and no other.
HoldsOnePath ==
    (\A g \in Monitors : block[g].at # "released") =>
        path_refs = IF m_current_path = NoPath THEN 0 ELSE 1

\* An application that reads the default interface once the monitor runs, and then
\* listens, knows the interface of a satisfied path as soon as its update is handled,
\* although the first update is never reported.
BelievedIsCurrent ==
    (/\ is_running /\ asked = m_nw_path_monitor
     /\ \A g \in Monitors : block[g].at = "idle" /\ updates[g] = <<>>
     /\ path_now.satisfied /\ get_interface_name(path_now) # NoName)
    => believed = get_interface_name(path_now)

\* With the application's calls after the handler's: no fault, one path held, and the
\* application's idea of the default interface is right.
PathExact == NoRaceFault /\ HoldsOnePath /\ BelievedIsCurrent

-----------------------------------------------------------------------------
(* The inductive invariant of a monitor that is not raced *)

\* Only the newest monitor is in use, and it alone has something to hand over.
OneMonitor ==
    /\ m_nw_path_monitor \in {0, made} /\ asked <= made
    /\ app # "idle" => is_running
    /\ \A g \in Monitors : g # m_nw_path_monitor => updates[g] = <<>> /\ block[g].at = "idle"

\* start() waits until the first update has been handled, which is on its way.
FirstUpdate ==
    /\ ~is_running => ~m_first_update_done
    /\ is_running /\ ~m_first_update_done =>
          /\ group[m_nw_path_monitor] = "entered"
          /\ updates[m_nw_path_monitor] # <<>> \/ block[m_nw_path_monitor].at # "idle"
          /\ asked # m_nw_path_monitor
    /\ is_running /\ block[m_nw_path_monitor].at = "retained" =>
          block[m_nw_path_monitor].old_first_update_done = m_first_update_done

Releasing == is_running /\ block[m_nw_path_monitor].at = "released"

\* The latest path is the last one to hand over, or the one in the handler's hands, or
\* the one held.
LatestPath ==
    /\ is_running =>
          path_now = IF updates[m_nw_path_monitor] # <<>>
                     THEN updates[m_nw_path_monitor][Len(updates[m_nw_path_monitor])]
                     ELSE IF Releasing THEN block[m_nw_path_monitor].path ELSE m_current_path
    /\ Releasing => block[m_nw_path_monitor].path \in PathKinds

OneReference == path_refs = IF Releasing \/ m_current_path = NoPath THEN 0 ELSE 1

\* Between two updates the name is that of the path held, unless that path is not
\* satisfied; and who has read the name since the start knows it.
NameKnown ==
    is_running =>
        /\ block[m_nw_path_monitor].at = "idle" /\ m_first_update_done =>
              \/ m_name = get_interface_name(m_current_path)
              \/ m_name = NoName /\ ~m_current_path.satisfied
        /\ asked = m_nw_path_monitor /\ m_name # NoName => believed = m_name

PathIInv ==
    PathTypeOK /\ OneMonitor /\ FirstUpdate /\ LatestPath /\ OneReference /\ NameKnown /\ NoRaceFault
=============================================================================
