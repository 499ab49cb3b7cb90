-------------------------- MODULE PathMonitor_proofs --------------------------
(***************************************************************************)
(* An application that does not call while an update is being handled      *)
(* always gets the default interface, however often it starts and stops    *)
(* the monitor and however the path changes.                               *)
(***************************************************************************)
EXTENDS PathMonitor, SequenceTheorems, TLAPS

\* Taking the first element of a queue leaves its last one, if any is left.
LEMMA TailLast ==
    ASSUME NEW S, NEW s \in Seq(S), s # <<>>
    PROVE  /\ Tail(s) \in Seq(S) /\ Head(s) \in S
           /\ Tail(s) = <<>> => Head(s) = s[Len(s)]
           /\ Tail(s) # <<>> => Tail(s)[Len(Tail(s))] = s[Len(s)]
<1>1. /\ Len(s) \in Nat /\ Len(s) > 0 /\ Head(s) = s[1] /\ s[1] \in S
      /\ Tail(s) \in Seq(S) /\ Len(Tail(s)) = Len(s) - 1
      /\ \A i \in 1 .. Len(Tail(s)) : Tail(s)[i] = s[i + 1]
  BY HeadTailProperties
<1>2. Tail(s) = <<>> => Len(s) = 1
  <2>1. Tail(s) = <<>> => Len(Tail(s)) = 0
    BY EmptySeq
  <2>. QED
    BY <1>1, <2>1
<1>3. Tail(s) # <<>> => Len(s) - 1 \in 1 .. Len(Tail(s)) /\ (Len(s) - 1) + 1 = Len(s)
  BY <1>1
<1>4. Tail(s) # <<>> => Tail(s)[Len(s) - 1] = s[(Len(s) - 1) + 1]
  BY <1>1, <1>3
<1>. QED
  BY <1>1, <1>2, <1>3, <1>4

LEMMA AppendLast ==
    ASSUME NEW S, NEW s \in Seq(S), NEW e \in S
    PROVE  /\ Append(s, e) \in Seq(S) /\ Append(s, e) # <<>>
           /\ Append(s, e)[Len(Append(s, e))] = e
  OBVIOUS

LEMMA OneElement ==
    ASSUME NEW S, NEW e \in S
    PROVE  <<e>> \in Seq(S) /\ <<e>> # <<>> /\ Len(<<e>>) = 1 /\ <<e>>[1] = e
  OBVIOUS

LEMMA PathInitInv == PathInit => PathIInv
<1>1. SUFFICES ASSUME PathInit PROVE PathIInv
  OBVIOUS
<1>2. PathTypeOK
  <2>1. IdleBlock \in Blocks /\ <<>> \in Seq(PathKinds) /\ 0 \in 0 .. MaxMonitors
    BY PathMonitorAssumption DEF IdleBlock, Blocks
  <2>. QED
    BY <1>1, <2>1 DEF PathInit, PathTypeOK
<1>3. OneMonitor
  BY <1>1 DEF PathInit, OneMonitor, IdleBlock, is_running
<1>4. FirstUpdate /\ LatestPath /\ NameKnown
  BY <1>1 DEF PathInit, FirstUpdate, LatestPath, NameKnown, Releasing, is_running
<1>5. OneReference /\ NoRaceFault
  BY <1>1 DEF PathInit, OneReference, NoRaceFault
<1>. QED
  BY <1>2, <1>3, <1>4, <1>5 DEF PathIInv

LEMMA PathChangesInv == ASSUME PathIInv, PathChanges PROVE PathIInv'
<1>. DEFINE g == m_nw_path_monitor
<1>1. /\ path_now' \in PathKinds /\ updates \in [Monitors -> Seq(PathKinds)]
      /\ updates' = [h \in Monitors |-> IF h = g THEN Append(updates[h], path_now') ELSE updates[h]]
      /\ UNCHANGED <<made, m_nw_path_monitor, block, group, m_current_path, path_refs,
                     m_first_update_done, m_name, app, believed, asked, faults>>
  BY DEF PathChanges, PathIInv, PathTypeOK
<1>2. updates' \in [Monitors -> Seq(PathKinds)]
  BY <1>1
<1>3. PathTypeOK'
  BY <1>1, <1>2 DEF PathIInv, PathTypeOK
<1>4. is_running =>
        /\ g \in Monitors /\ updates'[g] # <<>>
        /\ updates'[g][Len(updates'[g])] = path_now'
  <2>1. SUFFICES ASSUME is_running PROVE g \in Monitors /\ updates'[g] # <<>>
                                         /\ updates'[g][Len(updates'[g])] = path_now'
    OBVIOUS
  <2>2. g \in Monitors
    <3>1. g \in 0 .. MaxMonitors /\ g # 0 /\ MaxMonitors \in Nat
      BY <2>1, PathMonitorAssumption DEF is_running, PathIInv, PathTypeOK
    <3>. QED
      BY <3>1 DEF Monitors
  <2>3. updates'[g] = Append(updates[g], path_now') /\ updates[g] \in Seq(PathKinds)
    BY <1>1, <2>2
  <2>. QED
    BY <1>1, <2>2, <2>3, AppendLast
<1>5. OneMonitor'
  BY <1>1 DEF PathIInv, OneMonitor, is_running
<1>6. FirstUpdate' /\ LatestPath'
  BY <1>1, <1>4 DEF PathIInv, FirstUpdate, LatestPath, Releasing, is_running
<1>7. OneReference' /\ NameKnown' /\ NoRaceFault'
  BY <1>1 DEF PathIInv, OneReference, NameKnown, NoRaceFault, Releasing, is_running
<1>. QED
  BY <1>3, <1>5, <1>6, <1>7 DEF PathIInv

\* The handler runs for the monitor in use only.
LEMMA BusyIsCurrent ==
    ASSUME PathIInv, NEW g \in Monitors, updates[g] # <<>> \/ block[g].at # "idle"
    PROVE  g = m_nw_path_monitor /\ is_running
<1>1. g = m_nw_path_monitor
  BY DEF PathIInv, OneMonitor
<1>2. g # 0
  BY PathMonitorAssumption DEF Monitors
<1>. QED
  BY <1>1, <1>2 DEF is_running

LEMMA ReleasePathInv == ASSUME PathIInv, NEW g \in Monitors, ReleasePath(g) PROVE PathIInv'
<1>1. g = m_nw_path_monitor /\ is_running /\ block[g].at = "idle" /\ updates[g] # <<>>
  BY BusyIsCurrent DEF ReleasePath
<1>2. /\ updates[g] \in Seq(PathKinds) /\ updates \in [Monitors -> Seq(PathKinds)]
      /\ block \in [Monitors -> Blocks]
      /\ updates' = [updates EXCEPT ![g] = Tail(updates[g])]
      /\ block' = [block EXCEPT ![g] = [@ EXCEPT !.at = "released", !.path = Head(updates[g])]]
      /\ UNCHANGED <<path_now, path_changes, made, m_nw_path_monitor, group, m_current_path,
                     m_first_update_done, m_name, app, believed, asked>>
  BY DEF ReleasePath, PathIInv, PathTypeOK, systemVars
<1>3. /\ Tail(updates[g]) \in Seq(PathKinds) /\ Head(updates[g]) \in PathKinds
      /\ Tail(updates[g]) = <<>> => Head(updates[g]) = updates[g][Len(updates[g])]
      /\ Tail(updates[g]) # <<>> =>
            Tail(updates[g])[Len(Tail(updates[g]))] = updates[g][Len(updates[g])]
  BY <1>1, <1>2, TailLast
<1>4. /\ updates' \in [Monitors -> Seq(PathKinds)] /\ updates'[g] = Tail(updates[g])
      /\ \A h \in Monitors \ {g} : updates'[h] = updates[h] /\ block'[h] = block[h]
      /\ block'[g].at = "released" /\ block'[g].path = Head(updates[g])
      /\ block' \in [Monitors -> Blocks]
  BY <1>2, <1>3 DEF Blocks
<1>5. path_refs' = 0 /\ faults' = faults
  BY <1>1 DEF ReleasePath, PathIInv, OneReference, Releasing
<1>6. PathTypeOK'
  BY <1>2, <1>4, <1>5 DEF PathIInv, PathTypeOK
<1>7. OneMonitor' /\ FirstUpdate'
  BY <1>1, <1>2, <1>4 DEF PathIInv, OneMonitor, FirstUpdate, is_running
<1>8. LatestPath'
  BY <1>1, <1>2, <1>3, <1>4 DEF PathIInv, LatestPath, Releasing, is_running
<1>9. OneReference' /\ NameKnown' /\ NoRaceFault'
  BY <1>1, <1>2, <1>4, <1>5 DEF PathIInv, OneReference, NameKnown, NoRaceFault, Releasing, is_running
<1>. QED
  BY <1>6, <1>7, <1>8, <1>9 DEF PathIInv

LEMMA RetainPathInv == ASSUME PathIInv, NEW g \in Monitors, RetainPath(g) PROVE PathIInv'
<1>1. g = m_nw_path_monitor /\ is_running /\ block[g].at = "released" /\ Releasing
  BY BusyIsCurrent DEF RetainPath, Releasing
<1>2. /\ block \in [Monitors -> Blocks]
      /\ block' = [block EXCEPT ![g].at = "retained", ![g].old_first_update_done = m_first_update_done]
      /\ m_current_path' = block[g].path /\ path_refs' = path_refs + 1
      /\ m_first_update_done \in BOOLEAN
      /\ UNCHANGED <<path_now, path_changes, made, m_nw_path_monitor, updates, group,
                     m_first_update_done, m_name, app, believed, asked, faults>>
  BY DEF RetainPath, PathIInv, PathTypeOK, systemVars
<1>3. block[g].path \in PathKinds /\ block[g].path # NoPath /\ path_refs' = 1
  BY <1>1, <1>2, PathMonitorAssumption DEF PathIInv, LatestPath, OneReference, PathKinds
<1>4. /\ block' \in [Monitors -> Blocks]
      /\ \A h \in Monitors \ {g} : block'[h] = block[h]
      /\ block'[g].at = "retained" /\ block'[g].old_first_update_done = m_first_update_done
  BY <1>2 DEF Blocks
<1>5. PathTypeOK'
  <2>1. m_current_path' \in PathKinds \cup {NoPath} /\ path_refs' \in Nat
    BY <1>2, <1>3
  <2>. QED
    BY <1>2, <1>4, <2>1 DEF PathIInv, PathTypeOK
<1>6. OneMonitor' /\ FirstUpdate'
  BY <1>1, <1>2, <1>4 DEF PathIInv, OneMonitor, FirstUpdate, is_running
<1>7. LatestPath'
  BY <1>1, <1>2, <1>4 DEF PathIInv, LatestPath, Releasing, is_running
<1>8. OneReference' /\ NameKnown' /\ NoRaceFault'
  BY <1>1, <1>2, <1>3, <1>4 DEF PathIInv, OneReference, NameKnown, NoRaceFault, Releasing, is_running
<1>. QED
  BY <1>5, <1>6, <1>7, <1>8 DEF PathIInv

\* The first update is the one start() waits for; the later ones keep who has read the
\* name informed.
LEMMA UpdateDoneInv == ASSUME PathIInv, NEW g \in Monitors, UpdateDone(g) PROVE PathIInv'
<1>. DEFINE name == get_interface_name(m_current_path)
<1>1. g = m_nw_path_monitor /\ is_running /\ block[g].at = "retained" /\ ~Releasing
  BY BusyIsCurrent DEF UpdateDone, Releasing
<1>2. /\ block \in [Monitors -> Blocks] /\ block' = [block EXCEPT ![g] = IdleBlock]
      /\ group \in [Monitors -> {"none", "entered", "left", "released"}]
      /\ changed_handler
      /\ UNCHANGED <<path_now, path_changes, made, m_nw_path_monitor, updates, m_current_path,
                     path_refs, app, asked>>
  BY DEF UpdateDone, PathIInv, PathTypeOK, systemVars
<1>3. m_first_update_done' = TRUE
  BY <1>2 DEF changed_handler, PathIInv, PathTypeOK
<1>4. EndsWait(g) => group[g] = "entered"
  BY <1>1 DEF EndsWait, PathIInv, FirstUpdate
<1>5. faults' = faults /\ group' \in [Monitors -> {"none", "entered", "left", "released"}]
  BY <1>2, <1>4 DEF UpdateDone
<1>6. /\ block' \in [Monitors -> Blocks] /\ block'[g].at = "idle"
      /\ \A h \in Monitors \ {g} : block'[h] = block[h]
  BY <1>2 DEF IdleBlock, Blocks
<1>7. PathTypeOK'
  BY <1>2, <1>3, <1>5, <1>6 DEF PathIInv, PathTypeOK
<1>8. OneMonitor' /\ FirstUpdate' /\ NoRaceFault'
  BY <1>1, <1>2, <1>3, <1>5, <1>6 DEF PathIInv, OneMonitor, FirstUpdate, NoRaceFault, is_running
<1>9. LatestPath' /\ OneReference'
  BY <1>1, <1>2, <1>6 DEF PathIInv, LatestPath, OneReference, Releasing, is_running
<1>10. m_name' = name \/ (m_name' = NoName /\ ~m_current_path.satisfied)
  BY <1>2 DEF changed_handler, handle_path_change
<1>11. asked = g /\ m_name' # NoName => believed' = m_name'
  <2>1. SUFFICES ASSUME asked = g, m_name' # NoName PROVE believed' = m_name'
    OBVIOUS
  <2>2. m_first_update_done /\ (m_name # NoName => believed = m_name)
    BY <1>1, <2>1 DEF PathIInv, FirstUpdate, NameKnown
  <2>3. handle_path_change(name, m_current_path.satisfied)
    BY <1>2, <2>2 DEF changed_handler
  <2>4. m_current_path.satisfied /\ m_name' = name
    BY <2>1, <2>3 DEF handle_path_change
  <2>. QED
    BY <2>1, <2>2, <2>3, <2>4 DEF handle_path_change
<1>12. NameKnown'
  BY <1>1, <1>2, <1>10, <1>11 DEF NameKnown
<1>. QED
  BY <1>7, <1>8, <1>9, <1>12 DEF PathIInv

\* No update is in flight when the application calls.
LEMMA NoneInFlight ==
    ASSUME ~Racing, MayCall
    PROVE  \A g \in Monitors : block[g].at = "idle" /\ updates[g] = <<>>
  BY DEF MayCall

\* A call that reads finds the path, and what it finds is the path of the system.
LEMMA ReadIsLatest ==
    ASSUME ~Racing, MayCall, PathIInv, is_running
    PROVE  /\ m_nw_path_monitor \in Monitors /\ ~Releasing
           /\ m_first_update_done /\ m_current_path = path_now
           /\ m_current_path # NoPath /\ path_refs = 1
<1>1. m_nw_path_monitor \in Monitors
  <2>1. m_nw_path_monitor \in 0 .. MaxMonitors /\ m_nw_path_monitor # 0 /\ MaxMonitors \in Nat
    BY PathMonitorAssumption DEF is_running, PathIInv, PathTypeOK
  <2>. QED
    BY <2>1 DEF Monitors
<1>2. block[m_nw_path_monitor].at = "idle" /\ updates[m_nw_path_monitor] = <<>>
  BY <1>1, NoneInFlight
<1>3. ~Releasing /\ m_first_update_done /\ m_current_path = path_now
  BY <1>1, <1>2 DEF PathIInv, FirstUpdate, LatestPath, Releasing
<1>4. m_current_path # NoPath
  BY <1>3, PathMonitorAssumption DEF PathIInv, PathTypeOK, PathKinds
<1>. QED
  BY <1>1, <1>3, <1>4 DEF PathIInv, OneReference

LEMMA get_default_interfaceInv == ASSUME ~Racing, PathIInv, get_default_interface PROVE PathIInv'
<1>. DEFINE g == m_nw_path_monitor
<1>1. /\ MayCall /\ is_running /\ ReadPath /\ asked' = g
      /\ UNCHANGED <<path_now, path_changes, made, m_nw_path_monitor, updates, block, group,
                     m_current_path, path_refs, m_first_update_done, m_name, app>>
  BY DEF get_default_interface, systemVars
<1>2. /\ g \in Monitors /\ m_first_update_done /\ m_current_path # NoPath /\ path_refs = 1
  BY <1>1, ReadIsLatest
<1>3. believed' = get_interface_name(m_current_path) /\ faults' = faults
  BY <1>1, <1>2 DEF ReadPath
<1>4. PathTypeOK' /\ OneMonitor'
  <2>1. asked' \in 0 .. MaxMonitors /\ asked' <= made'
    <3>1. asked' = made /\ made' = made /\ made \in 0 .. MaxMonitors
      BY <1>1 DEF PathIInv, PathTypeOK, OneMonitor, is_running
    <3>2. made <= made
      BY <3>1, PathMonitorAssumption
    <3>. QED
      BY <3>1, <3>2
  <2>. QED
    BY <1>1, <2>1 DEF PathIInv, PathTypeOK, OneMonitor, is_running
<1>5. FirstUpdate' /\ LatestPath' /\ OneReference' /\ NoRaceFault'
  BY <1>1, <1>2, <1>3
  DEF PathIInv, FirstUpdate, LatestPath, OneReference, NoRaceFault, Releasing, is_running
<1>6. block[g].at = "idle"
  BY <1>1, <1>2, NoneInFlight
<1>7. NameKnown'
  BY <1>1, <1>2, <1>3, <1>6 DEF PathIInv, NameKnown, is_running
<1>. QED
  BY <1>4, <1>5, <1>7 DEF PathIInv

LEMMA ReadRefusedInv == ASSUME ~Racing, PathIInv, ReadRefused PROVE PathIInv'
<1>1. /\ MayCall /\ ~is_running /\ ReadPath
      /\ UNCHANGED <<path_now, path_changes, made, m_nw_path_monitor, updates, block, group,
                     m_current_path, path_refs, m_first_update_done, m_name, app, asked>>
  BY DEF ReadRefused, systemVars
<1>2. faults' \subseteq {"no path"}
  <2>1. m_current_path # NoPath => path_refs > 0
    BY <1>1 DEF PathIInv, OneReference, Releasing
  <2>2. faults' = faults \/ faults' = faults \cup {"no path"}
    BY <1>1, <2>1 DEF ReadPath
  <2>. QED
    BY <2>2 DEF PathIInv, NoRaceFault
<1>3. PathTypeOK' /\ OneMonitor'
  BY <1>1 DEF PathIInv, PathTypeOK, OneMonitor, is_running
<1>4. FirstUpdate' /\ LatestPath' /\ OneReference' /\ NameKnown' /\ NoRaceFault'
  BY <1>1, <1>2
  DEF PathIInv, FirstUpdate, LatestPath, OneReference, NameKnown, NoRaceFault, Releasing, is_running
<1>. QED
  BY <1>3, <1>4 DEF PathIInv

LEMMA StartMonitorInv ==
    ASSUME PathIInv, NEW stage \in {"starting", "opening"}, app = "idle", StartMonitor(stage)
    PROVE  PathIInv'
<1>. DEFINE g == made + 1
<1>1. /\ ~is_running /\ made < MaxMonitors /\ made' = g /\ m_nw_path_monitor' = g
      /\ group' = [group EXCEPT ![g] = "entered"] /\ updates' = [updates EXCEPT ![g] = <<path_now>>]
      /\ app' = stage
      /\ UNCHANGED <<path_now, path_changes, block, m_current_path, path_refs, m_first_update_done,
                     m_name, believed, asked, faults>>
  BY DEF StartMonitor, systemVars
<1>2. made \in 0 .. MaxMonitors /\ asked \in 0 .. MaxMonitors /\ asked <= made /\ MaxMonitors \in Nat
  BY PathMonitorAssumption DEF PathIInv, PathTypeOK, OneMonitor
<1>3. g \in 1 .. MaxMonitors /\ g \in 0 .. MaxMonitors /\ g # 0 /\ asked # g /\ asked <= g
  <2>1. made \in Nat /\ asked \in Nat /\ made < MaxMonitors
    BY <1>1, <1>2
  <2>2. made + 1 \in Nat /\ made + 1 > 0 /\ made + 1 <= MaxMonitors /\ asked < made + 1
    BY <1>2, <2>1
  <2>. QED
    BY <1>2, <2>1, <2>2
<1>. HIDE DEF g
<1>4. g \in Monitors
  BY <1>3 DEF Monitors
<1>5. /\ path_now \in PathKinds /\ updates \in [Monitors -> Seq(PathKinds)]
      /\ group \in [Monitors -> {"none", "entered", "left", "released"}]
      /\ ~m_first_update_done
      /\ \A h \in Monitors : updates[h] = <<>> /\ block[h].at = "idle"
  <2>1. \A h \in Monitors : h # m_nw_path_monitor
    <3>1. m_nw_path_monitor = 0
      BY <1>1 DEF is_running
    <3>2. \A h \in Monitors : h # 0
      BY <1>2 DEF Monitors
    <3>. QED
      BY <3>1, <3>2
  <2>. QED
    BY <1>1, <2>1 DEF PathIInv, PathTypeOK, FirstUpdate, OneMonitor
<1>6. <<path_now>> \in Seq(PathKinds) /\ <<path_now>> # <<>> /\ Len(<<path_now>>) = 1
      /\ <<path_now>>[1] = path_now
  BY <1>5, OneElement
<1>7. /\ updates' \in [Monitors -> Seq(PathKinds)] /\ updates'[g] = <<path_now>>
      /\ \A h \in Monitors \ {g} : updates'[h] = <<>>
      /\ group' \in [Monitors -> {"none", "entered", "left", "released"}] /\ group'[g] = "entered"
  BY <1>1, <1>4, <1>5, <1>6
<1>8. PathTypeOK'
  BY <1>1, <1>3, <1>7 DEF PathIInv, PathTypeOK
<1>9. OneMonitor' /\ FirstUpdate'
  BY <1>1, <1>3, <1>4, <1>5, <1>6, <1>7 DEF OneMonitor, FirstUpdate, is_running
<1>10. ~Releasing /\ ~Releasing'
  BY <1>1, <1>4, <1>5 DEF Releasing
<1>11. LatestPath'
  BY <1>1, <1>3, <1>6, <1>7, <1>10 DEF LatestPath, is_running
<1>12. OneReference' /\ NoRaceFault'
  BY <1>1, <1>10 DEF PathIInv, OneReference, NoRaceFault
<1>13. NameKnown'
  BY <1>1, <1>3, <1>5 DEF NameKnown
<1>. QED
  BY <1>8, <1>9, <1>11, <1>12, <1>13 DEF PathIInv

LEMMA StartReturnInv == ASSUME PathIInv, StartReturn PROVE PathIInv'
<1>. DEFINE g == m_nw_path_monitor
<1>1. /\ app \in {"starting", "opening"} /\ group[g] = "left"
      /\ group' = [group EXCEPT ![g] = "released"] /\ app' \in {"idle", "reading"}
      /\ UNCHANGED <<path_now, path_changes, made, m_nw_path_monitor, updates, block,
                     m_current_path, path_refs, m_first_update_done, m_name, believed, asked, faults>>
  BY DEF StartReturn, systemVars
<1>2. is_running /\ m_first_update_done
  BY <1>1 DEF PathIInv, OneMonitor, FirstUpdate
<1>3. group' \in [Monitors -> {"none", "entered", "left", "released"}]
  BY <1>1 DEF PathIInv, PathTypeOK
<1>4. PathTypeOK'
  BY <1>1, <1>3 DEF PathIInv, PathTypeOK
<1>5. OneMonitor' /\ FirstUpdate'
  BY <1>1, <1>2 DEF PathIInv, OneMonitor, FirstUpdate, is_running
<1>6. LatestPath' /\ OneReference' /\ NameKnown' /\ NoRaceFault'
  BY <1>1 DEF PathIInv, LatestPath, OneReference, NameKnown, NoRaceFault, Releasing, is_running
<1>. QED
  BY <1>4, <1>5, <1>6 DEF PathIInv

\* The monitor is given up between two updates.
LEMMA CancelInv ==
    ASSUME ~Racing, PathIInv, MayCall, is_running, CancelMonitor, m_first_update_done' = FALSE,
           app' = "idle", NoRaceFault',
           UNCHANGED <<path_now, path_changes, made, block, group, m_current_path, path_refs, asked>>
    PROVE  PathIInv'
<1>1. /\ \A g \in Monitors : block[g].at = "idle" /\ updates[g] = <<>>
      /\ m_nw_path_monitor \in Monitors /\ ~Releasing
  BY NoneInFlight, ReadIsLatest
<1>2. /\ m_nw_path_monitor' = 0 /\ ~is_running'
      /\ updates' = [updates EXCEPT ![m_nw_path_monitor] = <<>>]
  BY DEF CancelMonitor, is_running
<1>3. updates' \in [Monitors -> Seq(PathKinds)] /\ \A g \in Monitors : updates'[g] = <<>>
  BY <1>1, <1>2 DEF PathIInv, PathTypeOK
<1>4. PathTypeOK'
  <2>1. 0 \in 0 .. MaxMonitors
    BY PathMonitorAssumption
  <2>. QED
    BY <1>2, <1>3, <2>1 DEF PathIInv, PathTypeOK
<1>5. OneMonitor' /\ FirstUpdate' /\ LatestPath' /\ NameKnown'
  BY <1>1, <1>2, <1>3 DEF PathIInv, OneMonitor, FirstUpdate, LatestPath, NameKnown, Releasing
<1>6. OneReference'
  BY <1>1, <1>2 DEF PathIInv, OneReference, Releasing
<1>. QED
  BY <1>4, <1>5, <1>6 DEF PathIInv

LEMMA StopInv == ASSUME ~Racing, PathIInv, stop_path_monitor PROVE PathIInv'
  BY CancelInv DEF stop_path_monitor, FirstUpdateAfterStop, PathIInv, NoRaceFault, systemVars

LEMMA ReadAndStopInv == ASSUME ~Racing, PathIInv, ReadAndStop PROVE PathIInv'
<1>1. is_running /\ MayCall
  BY DEF ReadAndStop, PathIInv, OneMonitor
<1>2. NoRaceFault'
  <2>1. m_current_path # NoPath /\ path_refs > 0
    BY <1>1, ReadIsLatest
  <2>2. faults' = faults
    BY <2>1 DEF ReadAndStop, ReadPath
  <2>. QED
    BY <2>2 DEF PathIInv, NoRaceFault
<1>. QED
  BY <1>1, <1>2, CancelInv DEF ReadAndStop, FirstUpdateAfterStop, systemVars

LEMMA PathStutterInv == ASSUME PathIInv, UNCHANGED pathVars PROVE PathIInv'
<1>1. PathTypeOK'
  BY DEF pathVars, PathIInv, PathTypeOK
<1>2. OneMonitor' /\ FirstUpdate'
  BY DEF pathVars, PathIInv, OneMonitor, FirstUpdate, is_running
<1>3. LatestPath' /\ OneReference'
  BY DEF pathVars, PathIInv, LatestPath, OneReference, Releasing, is_running
<1>4. NameKnown' /\ NoRaceFault'
  BY DEF pathVars, PathIInv, NameKnown, NoRaceFault, is_running
<1>. QED
  BY <1>1, <1>2, <1>3, <1>4 DEF PathIInv

-----------------------------------------------------------------------------

\* The inductive invariant holds in every state, when the application calls after the
\* handler.
THEOREM PathInvariance == ASSUME ~Racing PROVE PathSpec => []PathIInv
<1>1. PathInit => PathIInv
  BY PathInitInv
<1>2. ASSUME PathIInv, [PathNext]_pathVars PROVE PathIInv'
  <2>1. CASE PathChanges
    BY <1>2, <2>1, PathChangesInv
  <2>2. CASE Update
    BY <1>2, <2>2, ReleasePathInv, RetainPathInv, UpdateDoneInv DEF Update
  <2>3. CASE Calls
    BY <1>2, <2>3, StartMonitorInv, PathStutterInv, StopInv, get_default_interfaceInv, ReadRefusedInv
    DEF Calls, start, StartRefused, StartToRead
  <2>4. CASE StartReturn
    BY <1>2, <2>4, StartReturnInv
  <2>5. CASE ReadAndStop
    BY <1>2, <2>5, ReadAndStopInv
  <2>6. CASE UNCHANGED pathVars
    BY <1>2, <2>6, PathStutterInv
  <2>. QED
    BY <1>2, <2>1, <2>2, <2>3, <2>4, <2>5, <2>6 DEF PathNext
<1>. QED
  BY <1>1, <1>2, PTL DEF PathSpec

\* When the application calls after the handler, no path is released twice or read after
\* its release, no group is left twice, one path is held, and an application that has
\* read the default interface once and listens since then knows it, for any number of
\* starts and changes of the path.
THEOREM PathMonitorExact == ASSUME ~Racing PROVE PathSpec => []PathExact
<1>1. PathIInv => PathExact
  <2>1. SUFFICES ASSUME PathIInv PROVE PathExact
    OBVIOUS
  <2>2. is_running => m_nw_path_monitor \in Monitors
    <3>1. m_nw_path_monitor \in 0 .. MaxMonitors /\ MaxMonitors \in Nat
      BY <2>1, PathMonitorAssumption DEF PathIInv, PathTypeOK
    <3>. QED
      BY <3>1 DEF is_running, Monitors
  <2>3. HoldsOnePath
    BY <2>1, <2>2 DEF PathIInv, OneReference, Releasing, HoldsOnePath
  <2>4. BelievedIsCurrent
    BY <2>1, <2>2 DEF PathIInv, FirstUpdate, LatestPath, NameKnown, Releasing, BelievedIsCurrent
  <2>. QED
    BY <2>1, <2>3, <2>4 DEF PathIInv, PathExact
<1>. QED
  BY <1>1, PathInvariance, PTL
===============================================================================
