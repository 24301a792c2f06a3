--------------------------- MODULE PluginsProofs ---------------------------
(***************************************************************************)
(* Proofs about the hosts, the connection to a plugin in another process    *)
(* and the protocol plugins, each for its own specification and for the      *)
(* composition MCSpec, for any number of modules, callers, connections,      *)
(* files and dialers.                                                       *)
(***************************************************************************)
EXTENDS MCPlugins, FiniteSetTheorems, SequenceTheorems, WellFoundedInduction, TLAPS

-----------------------------------------------------------------------------
(* The hosts                                                                *)

(* An id is reserved while Init runs: one caller at a time, and nothing is    *)
(* loaded under it meanwhile.  A module that is being initialised or stopped  *)
(* is some caller's.                                                         *)
ReservationInv ==
  /\ \A c \in Caller : hostPc[c] = "init" =>
       registering /\ arg[c] \in Module /\ life[arg[c]] = "init"
  /\ \A c, d \in Caller : hostPc[c] = "init" /\ hostPc[d] = "init" => c = d
  /\ \A m \in Module : life[m] = "init" =>
       \E c \in Caller : hostPc[c] = "init" /\ arg[c] = m
  /\ registering => plugins = None
  /\ \A c \in Caller : hostPc[c] = "stop" =>
       arg[c] \in Module /\ life[arg[c]] \in {"stopping", "dead"}

(* While an Unregister is between the two hosts, and no Register met it, the  *)
(* map of the specialised host is empty and nobody is about to write it; and  *)
(* what is about to be written is live.                                      *)
FrontInv ==
  /\ ~overlap /\ H!Unregistering =>
       front = None /\ \A c \in Caller : hostPc[c] # "publish"
  /\ \A c \in Caller : hostPc[c] = "publish" =>
       arg[c] \in Module /\ (~overlap /\ ~shut => life[arg[c]] = "live")

(* The failures counted are the last ones of the log: the window began with    *)
(* the first of them, and none of them is after the window.                   *)
CountInv ==
  /\ failures <= Len(log)
  /\ failures = 0 <=> firstFailAt = 0
  /\ failures # 0 => log[Len(log) - failures + 1] = firstFailAt
  /\ \A i \in Len(log) - failures + 1 .. Len(log) : log[i] <= firstFailAt + Window

HostsInv ==
  H!TypeOK /\ ReservationInv /\ FrontInv /\ CountInv /\ H!ModulesAccounted /\ H!FrontIsLive

(* Nothing is registered.                                                    *)
LEMMA HostsInit == H!Init => HostsInv
<1> SUFFICES ASSUME H!Init PROVE HostsInv
  OBVIOUS
<1> USE HostsAssumption DEF H!Init
<1>1. registering \in BOOLEAN /\ shut \in BOOLEAN /\ overlap \in BOOLEAN
  OBVIOUS
<1>2. log \in Seq(1 .. MaxNow) /\ Len(log) = 0
  OBVIOUS
<1>3. H!TypeOK
  BY <1>1, <1>2 DEF H!TypeOK
<1>4. ReservationInv /\ FrontInv /\ H!ModulesAccounted /\ H!FrontIsLive
  BY DEF ReservationInv, FrontInv, H!Unregistering, H!ModulesAccounted, H!FrontIsLive
<1>5. CountInv
  BY <1>2 DEF CountInv
<1> QED
  BY <1>3, <1>4, <1>5 DEF HostsInv

(* Where a call goes, it has a place, a module or none, and a clock when its  *)
(* failure is to be recorded.                                                *)
Places == {"idle", "init", "publish", "unregister", "stop", "resolve", "record", "open"}

CallTypes ==
  /\ hostPc \in [Caller -> Places] /\ arg \in [Caller -> Module \cup {None}]
  /\ failedAt \in [Caller -> 0 .. MaxNow]
  /\ \A c \in Caller : hostPc[c] = "record" => failedAt[c] # 0

LEMMA GoesTyped ==
  ASSUME H!TypeOK, NEW c \in Caller, NEW where \in Places, NEW m \in Module \cup {None},
         H!Goes(c, where, m)
  PROVE  CallTypes'
<1>1. now \in 0 .. MaxNow /\ now # 0 /\ 0 \in 0 .. MaxNow
  BY HostsAssumption DEF H!TypeOK
<1>2. hostPc' = [hostPc EXCEPT ![c] = where] /\ arg' = [arg EXCEPT ![c] = m]
      /\ failedAt' = [failedAt EXCEPT ![c] = IF where = "record" THEN now ELSE 0]
  BY DEF H!Goes
<1> QED
  BY <1>1, <1>2 DEF H!TypeOK, CallTypes, Places

(* Every step of a host keeps the types.                                     *)
LEMMA HostsTypeStep == HostsInv /\ H!Next => H!TypeOK'
<1> SUFFICES ASSUME HostsInv, H!Next
             PROVE  H!TypeOK'
  OBVIOUS
<1>a. H!TypeOK /\ ReservationInv /\ FrontInv /\ CountInv /\ H!ModulesAccounted /\ H!FrontIsLive
  BY DEF HostsInv
<1> USE HostsAssumption
<1> USE DEF H!TypeOK, H!hostVars, H!failVars, H!callVars
<1>1. ASSUME NEW c \in Caller, NEW m \in Module, H!RegisterBegin(c, m)
      PROVE  H!TypeOK'
  BY <1>1, <1>a DEF H!RegisterBegin, H!Goes
<1>2. ASSUME NEW c \in Caller, H!InitFailed(c)
      PROVE  H!TypeOK'
  <2>1. CallTypes'
    BY <1>2, <1>a, GoesTyped DEF H!InitFailed, H!Returns, Places
  <2> QED
    BY <1>2, <1>a, <2>1 DEF H!InitFailed, CallTypes, Places
<1>3. ASSUME NEW c \in Caller, H!InitDone(c)
      PROVE  H!TypeOK'
  <2>1. CallTypes'
    BY <1>3, <1>a, GoesTyped DEF H!InitDone, H!Returns, Places
  <2>2. arg[c] \in Module
    BY <1>3, <1>a DEF H!InitDone, ReservationInv
  <2> QED
    BY <1>3, <1>a, <2>1, <2>2 DEF H!InitDone, H!Unregistering, CallTypes, Places
<1>4. ASSUME NEW c \in Caller, H!RegisterPublish(c)
      PROVE  H!TypeOK'
  BY <1>4, <1>a DEF H!RegisterPublish, H!Returns, H!Goes
<1>5. ASSUME NEW c \in Caller, H!UnregisterFront(c)
      PROVE  H!TypeOK'
  <2>1. <<>> \in Seq(1 .. MaxNow)
    OBVIOUS
  <2> QED
    BY <1>5, <1>a, <2>1 DEF H!UnregisterFront, H!Goes, H!ClearAll, H!ClearFailures
<1>6. ASSUME NEW c \in Caller, H!UnregisterHost(c)
      PROVE  H!TypeOK'
  <2>1. CallTypes'
    BY <1>6, <1>a, GoesTyped DEF H!UnregisterHost, H!Dropped, H!Returns, Places
  <2> QED
    BY <1>6, <1>a, <2>1 DEF H!UnregisterHost, H!Dropped, CallTypes, Places
<1>7. ASSUME NEW c \in Caller, H!ShutdownDone(c)
      PROVE  H!TypeOK'
  <2>1. CallTypes'
    BY <1>7, <1>a, GoesTyped DEF H!ShutdownDone, H!Returns, Places
  <2> QED
    BY <1>7, <1>a, <2>1 DEF H!ShutdownDone, CallTypes, Places
<1>8. ASSUME NEW c \in Caller, H!AppShutdown(c)
      PROVE  H!TypeOK'
  <2>1. CallTypes'
    BY <1>8, <1>a, GoesTyped DEF H!AppShutdown, H!Dropped, H!Returns, Places
  <2> QED
    BY <1>8, <1>a, <2>1 DEF H!AppShutdown, H!Dropped, CallTypes, Places
<1>9. ASSUME NEW c \in Caller, H!OpenLookup(c)
      PROVE  H!TypeOK'
  BY <1>9, <1>a DEF H!OpenLookup, H!Goes
<1>10. ASSUME NEW c \in Caller, H!OpenDone(c)
      PROVE  H!TypeOK'
  BY <1>10, <1>a DEF H!OpenDone, H!Returns, H!Goes
<1>11. ASSUME NEW c \in Caller, H!ResolveBegin(c)
      PROVE  H!TypeOK'
  <2>1. <<>> \in Seq(1 .. MaxNow)
    OBVIOUS
  <2>2. CASE H!Expired
    BY <1>11, <1>a, <2>1, <2>2 DEF H!ResolveBegin, H!Goes, H!Expire, H!ClearAll, H!ClearFailures
  <2>3. CASE ~H!Expired
    BY <1>11, <1>a, <2>3 DEF H!ResolveBegin, H!Goes, H!Expire
  <2> QED
    BY <2>2, <2>3
<1>12. ASSUME NEW c \in Caller, H!ResolveOk(c)
      PROVE  H!TypeOK'
  <2>1. <<>> \in Seq(1 .. MaxNow)
    OBVIOUS
  <2> QED
    BY <1>12, <1>a, <2>1 DEF H!ResolveOk, H!Returns, H!Goes, H!ClearFailures
<1>13. ASSUME NEW c \in Caller, H!ResolveFailed(c)
      PROVE  H!TypeOK'
  BY <1>13, <1>a DEF H!ResolveFailed, H!Goes
<1>17. ASSUME NEW c \in Caller, H!RecordFailure(c)
      PROVE  H!TypeOK'
  <2>6. PICK t \in 1 .. MaxNow : t = failedAt[c]
    BY <1>17, <1>a DEF H!RecordFailure
  <2>1. H!Counted(t) \in Nat \ {0}
    BY <1>a DEF H!Counted
  <2>2. Append(log, t) \in Seq(1 .. MaxNow) /\ <<>> \in Seq(1 .. MaxNow)
    BY <1>a
  <2>3. t + QuarantineFor \in 0 .. MaxNow + QuarantineFor
    BY <1>a
  <2>4. CASE H!Counted(t) >= Threshold
    <3>1. /\ failures' = 0 /\ firstFailAt' = 0 /\ log' = <<>> /\ until' = t + QuarantineFor
          /\ UNCHANGED <<plugins, registering, life, front, now, shut, overlap>>
          /\ hostPc' = [hostPc EXCEPT ![c] = "idle"] /\ arg' = [arg EXCEPT ![c] = None]
          /\ failedAt' = [failedAt EXCEPT ![c] = 0]
      BY <1>17, <2>4, <2>6 DEF H!RecordFailure, H!Returns, H!Goes, H!ClearFailures
    <3> QED
      BY <1>a, <2>2, <2>3, <3>1
  <2>5. CASE ~(H!Counted(t) >= Threshold)
    <3>1. failures' \in 0 .. Threshold - 1 /\ firstFailAt' \in 0 .. MaxNow
      BY <1>17, <1>a, <2>1, <2>5, <2>6 DEF H!RecordFailure
    <3>2. /\ log' = Append(log, t)
          /\ UNCHANGED <<plugins, registering, life, front, until, now, shut, overlap>>
          /\ hostPc' = [hostPc EXCEPT ![c] = "idle"] /\ arg' = [arg EXCEPT ![c] = None]
          /\ failedAt' = [failedAt EXCEPT ![c] = 0]
      BY <1>17, <2>5, <2>6 DEF H!RecordFailure, H!Returns, H!Goes
    <3> QED
      BY <1>a, <2>2, <3>1, <3>2
  <2> QED
    BY <2>4, <2>5
<1>14. CASE H!CheckQuarantine
  <2>1. <<>> \in Seq(1 .. MaxNow)
    OBVIOUS
  <2> QED
    BY <1>14, <1>a, <2>1 DEF H!CheckQuarantine, H!ClearAll, H!ClearFailures
<1>15. CASE H!Reinstate
  <2>1. <<>> \in Seq(1 .. MaxNow)
    OBVIOUS
  <2> QED
    BY <1>15, <1>a, <2>1 DEF H!Reinstate, H!ClearAll, H!ClearFailures
<1>16. CASE H!Tick
  BY <1>16, <1>a DEF H!Tick
<1> QED
  BY <1>1, <1>2, <1>3, <1>4, <1>5, <1>6, <1>7, <1>8, <1>9, <1>10, <1>11, <1>12,
     <1>13, <1>14, <1>15, <1>16, <1>17 DEF H!Next

(* Every step keeps the reservation, and the maps of the two hosts in step.   *)
LEMMA HostsMapsStep == HostsInv /\ H!Next => ReservationInv' /\ FrontInv' /\ H!ModulesAccounted' /\ H!FrontIsLive'
<1> SUFFICES ASSUME HostsInv, H!Next
             PROVE  ReservationInv' /\ FrontInv' /\ H!ModulesAccounted' /\ H!FrontIsLive'
  OBVIOUS
<1>a. H!TypeOK /\ ReservationInv /\ FrontInv /\ CountInv /\ H!ModulesAccounted /\ H!FrontIsLive
  BY DEF HostsInv
<1> USE HostsAssumption
<1> USE DEF H!TypeOK, ReservationInv, FrontInv, H!ModulesAccounted, H!FrontIsLive,
            H!Unregistering, H!hostVars, H!failVars, H!callVars
<1>1. ASSUME NEW c \in Caller, NEW m \in Module, H!RegisterBegin(c, m)
      PROVE  ReservationInv' /\ FrontInv' /\ H!ModulesAccounted' /\ H!FrontIsLive'
  BY <1>1, <1>a DEF H!RegisterBegin, H!Goes
<1>2. ASSUME NEW c \in Caller, H!InitFailed(c)
      PROVE  ReservationInv' /\ FrontInv' /\ H!ModulesAccounted' /\ H!FrontIsLive'
  BY <1>2, <1>a DEF H!InitFailed, H!Returns, H!Goes
<1>3. ASSUME NEW c \in Caller, H!InitDone(c)
      PROVE  ReservationInv' /\ FrontInv' /\ H!ModulesAccounted' /\ H!FrontIsLive'
  <2>1. /\ plugins = None /\ registering /\ arg[c] \in Module /\ life[arg[c]] = "init"
        /\ \A d \in Caller : hostPc[d] = "init" => d = c
        /\ \A m \in Module : life[m] = "init" => m = arg[c]
    BY <1>3, <1>a DEF H!InitDone
  <2>2. /\ life' = [life EXCEPT ![arg[c]] = "live"] /\ plugins' = arg[c] /\ ~registering'
        /\ hostPc' = [hostPc EXCEPT ![c] = "publish"] /\ arg' = [arg EXCEPT ![c] = arg[c]]
        /\ (overlap' <=> (overlap \/ H!Unregistering)) /\ UNCHANGED <<front, shut>>
    BY <1>3, <2>1 DEF H!InitDone, H!Goes
  <2>3. ReservationInv'
    BY <1>a, <2>1, <2>2
  <2>4. FrontInv'
    BY <1>a, <2>1, <2>2
  <2>5. H!ModulesAccounted' /\ H!FrontIsLive'
    BY <1>a, <2>1, <2>2
  <2> QED
    BY <2>3, <2>4, <2>5
<1>4. ASSUME NEW c \in Caller, H!RegisterPublish(c)
      PROVE  ReservationInv' /\ FrontInv' /\ H!ModulesAccounted' /\ H!FrontIsLive'
  BY <1>4, <1>a DEF H!RegisterPublish, H!Returns, H!Goes
<1>5. ASSUME NEW c \in Caller, H!UnregisterFront(c)
      PROVE  ReservationInv' /\ FrontInv' /\ H!ModulesAccounted' /\ H!FrontIsLive'
  <2>1. /\ front' = None /\ UNCHANGED <<plugins, registering, life, shut>>
        /\ hostPc' = [hostPc EXCEPT ![c] = "unregister"] /\ arg' = [arg EXCEPT ![c] = None]
        /\ (overlap' <=> (overlap \/ \E o \in Caller : hostPc[o] = "publish"))
        /\ hostPc[c] = "idle"
    BY <1>5 DEF H!UnregisterFront, H!Goes
  <2>2. ReservationInv'
    BY <1>a, <2>1
  <2>3. FrontInv'
    BY <1>a, <2>1
  <2>4. H!ModulesAccounted' /\ H!FrontIsLive'
    BY <1>a, <2>1
  <2> QED
    BY <2>2, <2>3, <2>4
<1>6. ASSUME NEW c \in Caller, H!UnregisterHost(c)
      PROVE  ReservationInv' /\ FrontInv' /\ H!ModulesAccounted' /\ H!FrontIsLive'
  <2>1. CASE plugins = None
    <3>1. /\ hostPc' = [hostPc EXCEPT ![c] = "idle"] /\ arg' = [arg EXCEPT ![c] = None]
          /\ hostPc[c] = "unregister"
          /\ UNCHANGED <<plugins, life, registering, front, shut, overlap>>
      BY <1>6, <2>1 DEF H!UnregisterHost, H!Dropped, H!Returns, H!Goes
    <3>2. ReservationInv'
      BY <1>a, <3>1
    <3>3. FrontInv'
      BY <1>a, <3>1
    <3>4. H!ModulesAccounted' /\ H!FrontIsLive'
      BY <1>a, <3>1
    <3> QED
      BY <3>2, <3>3, <3>4
  <2>2. CASE plugins # None
    <3>1. /\ plugins \in Module /\ life[plugins] = "live" /\ ~registering
          /\ plugins' = None /\ life' = [life EXCEPT ![plugins] = "stopping"]
          /\ hostPc' = [hostPc EXCEPT ![c] = "stop"] /\ arg' = [arg EXCEPT ![c] = plugins]
          /\ UNCHANGED <<registering, front, overlap>>
      BY <1>6, <1>a, <2>2 DEF H!UnregisterHost, H!Dropped, H!Goes
    <3>2. \/ hostPc[c] = "unregister" /\ shut' = shut
          \/ hostPc[c] = "idle" /\ shut'
      BY <1>6 DEF H!UnregisterHost
    <3>3. ReservationInv'
      BY <1>a, <3>1, <3>2
    <3>4. FrontInv'
      BY <1>a, <3>1, <3>2
    <3>5. H!ModulesAccounted' /\ H!FrontIsLive'
      BY <1>a, <3>1, <3>2
    <3> QED
      BY <3>3, <3>4, <3>5
  <2> QED
    BY <2>1, <2>2
<1>7. ASSUME NEW c \in Caller, H!ShutdownDone(c)
      PROVE  ReservationInv' /\ FrontInv' /\ H!ModulesAccounted' /\ H!FrontIsLive'
  <2>1. /\ hostPc[c] = "stop" /\ arg[c] \in Module /\ life[arg[c]] \in {"stopping", "dead"}
        /\ life' = [life EXCEPT ![arg[c]] = "dead"]
        /\ hostPc' = [hostPc EXCEPT ![c] = "idle"] /\ arg' = [arg EXCEPT ![c] = None]
        /\ UNCHANGED <<plugins, registering, front, shut, overlap>>
    BY <1>7, <1>a DEF H!ShutdownDone, H!Returns, H!Goes
  <2> QED
    BY <1>a, <2>1
<1>8. ASSUME NEW c \in Caller, H!AppShutdown(c)
      PROVE  ReservationInv' /\ FrontInv' /\ H!ModulesAccounted' /\ H!FrontIsLive'
  <2>1. CASE plugins = None
    <3>1. /\ hostPc' = [hostPc EXCEPT ![c] = "idle"] /\ arg' = [arg EXCEPT ![c] = None]
          /\ hostPc[c] = "unregister"
          /\ UNCHANGED <<plugins, life, registering, front, shut, overlap>>
      BY <1>8, <2>1 DEF H!AppShutdown, H!Dropped, H!Returns, H!Goes
    <3>2. ReservationInv'
      BY <1>a, <3>1
    <3>3. FrontInv'
      BY <1>a, <3>1
    <3>4. H!ModulesAccounted' /\ H!FrontIsLive'
      BY <1>a, <3>1
    <3> QED
      BY <3>2, <3>3, <3>4
  <2>2. CASE plugins # None
    <3>1. /\ plugins \in Module /\ life[plugins] = "live" /\ ~registering
          /\ plugins' = None /\ life' = [life EXCEPT ![plugins] = "stopping"]
          /\ hostPc' = [hostPc EXCEPT ![c] = "stop"] /\ arg' = [arg EXCEPT ![c] = plugins]
          /\ UNCHANGED <<registering, front, overlap>>
      BY <1>8, <1>a, <2>2 DEF H!AppShutdown, H!Dropped, H!Goes
    <3>2. \/ hostPc[c] = "unregister" /\ shut' = shut
          \/ hostPc[c] = "idle" /\ shut'
      BY <1>8 DEF H!AppShutdown
    <3>3. ReservationInv'
      BY <1>a, <3>1, <3>2
    <3>4. FrontInv'
      BY <1>a, <3>1, <3>2
    <3>5. H!ModulesAccounted' /\ H!FrontIsLive'
      BY <1>a, <3>1, <3>2
    <3> QED
      BY <3>3, <3>4, <3>5
  <2> QED
    BY <2>1, <2>2
<1>9. ASSUME NEW c \in Caller, H!OpenLookup(c)
      PROVE  ReservationInv' /\ FrontInv' /\ H!ModulesAccounted' /\ H!FrontIsLive'
  BY <1>9, <1>a DEF H!OpenLookup, H!Goes
<1>10. ASSUME NEW c \in Caller, H!OpenDone(c)
      PROVE  ReservationInv' /\ FrontInv' /\ H!ModulesAccounted' /\ H!FrontIsLive'
  BY <1>10, <1>a DEF H!OpenDone, H!Returns, H!Goes
<1>11. ASSUME NEW c \in Caller, H!ResolveBegin(c)
      PROVE  ReservationInv' /\ FrontInv' /\ H!ModulesAccounted' /\ H!FrontIsLive'
  BY <1>11, <1>a DEF H!ResolveBegin, H!Goes, H!Expire, H!ClearAll, H!ClearFailures
<1>12. ASSUME NEW c \in Caller, H!ResolveOk(c)
      PROVE  ReservationInv' /\ FrontInv' /\ H!ModulesAccounted' /\ H!FrontIsLive'
  BY <1>12, <1>a DEF H!ResolveOk, H!Returns, H!Goes, H!ClearFailures
<1>13. ASSUME NEW c \in Caller, H!ResolveFailed(c)
      PROVE  ReservationInv' /\ FrontInv' /\ H!ModulesAccounted' /\ H!FrontIsLive'
  BY <1>13, <1>a DEF H!ResolveFailed, H!Goes
<1>17. ASSUME NEW c \in Caller, H!RecordFailure(c)
      PROVE  ReservationInv' /\ FrontInv' /\ H!ModulesAccounted' /\ H!FrontIsLive'
  <2>1. /\ hostPc[c] = "record"
        /\ hostPc' = [hostPc EXCEPT ![c] = "idle"] /\ arg' = [arg EXCEPT ![c] = None]
        /\ UNCHANGED <<plugins, registering, life, front, shut, overlap>>
    BY <1>17 DEF H!RecordFailure, H!Returns, H!Goes
  <2> QED
    BY <1>a, <2>1
<1>14. CASE H!CheckQuarantine
  BY <1>14, <1>a DEF H!CheckQuarantine, H!ClearAll, H!ClearFailures
<1>15. CASE H!Reinstate
  BY <1>15, <1>a DEF H!Reinstate, H!ClearAll, H!ClearFailures
<1>16. CASE H!Tick
  BY <1>16, <1>a DEF H!Tick
<1> QED
  BY <1>1, <1>2, <1>3, <1>4, <1>5, <1>6, <1>7, <1>8, <1>9, <1>10, <1>11, <1>12,
     <1>13, <1>14, <1>15, <1>16, <1>17 DEF H!Next

(* Only the recording of a failure, a successful Resolve and what clears the  *)
(* count touch it.                                                           *)
LEMMA HostsCountStep == HostsInv /\ H!Next => CountInv'
<1> SUFFICES ASSUME HostsInv, H!Next
             PROVE  CountInv'
  OBVIOUS
<1>a. H!TypeOK /\ CountInv
  BY DEF HostsInv
<1> USE HostsAssumption DEF H!TypeOK, CountInv
<1>1. CASE failures' = 0 /\ firstFailAt' = 0 /\ log' = <<>>
  BY <1>1
<1>2. CASE UNCHANGED <<failures, firstFailAt, log>>
  BY <1>2, <1>a
<1>3. ASSUME NEW c \in Caller, H!RecordFailure(c)
      PROVE  CountInv'
  <2>3. PICK t \in 1 .. MaxNow : t = failedAt[c]
    BY <1>3, <1>a DEF H!RecordFailure
  <2>1. CASE H!Counted(t) >= Threshold
    BY <1>1, <1>3, <2>1, <2>3 DEF H!RecordFailure, H!ClearFailures
  <2>2. CASE ~(H!Counted(t) >= Threshold)
    <3>1. failures' = H!Counted(t) /\ log' = Append(log, t)
          /\ firstFailAt' = IF H!Counted(t) = 1 THEN t ELSE firstFailAt
      BY <1>3, <2>2, <2>3 DEF H!RecordFailure
    <3>2. Len(log') = Len(log) + 1 /\ log'[Len(log) + 1] = t
          /\ \A i \in 1 .. Len(log) : log'[i] = log[i]
      BY <1>a, <3>1
    <3>3. CASE firstFailAt = 0 \/ t > firstFailAt + Window
      <4>1. failures' = 1 /\ firstFailAt' = t
        BY <3>1, <3>3 DEF H!Counted
      <4>2. Len(log) \in Nat
        BY <1>a
      <4> QED
        BY <3>2, <4>1, <4>2
    <3>4. CASE ~(firstFailAt = 0 \/ t > firstFailAt + Window)
      <4>1. failures' = failures + 1 /\ firstFailAt' = firstFailAt /\ t <= firstFailAt + Window
        BY <1>a, <3>1, <3>4, SMTT(30) DEF H!Counted
      <4>2. failures \in Nat \ {0} /\ Len(log) \in Nat /\ failures <= Len(log)
        BY <1>a, <3>4
      <4>3. ASSUME NEW i \in Len(log') - failures' + 1 .. Len(log')
            PROVE  log'[i] <= firstFailAt' + Window
        <5>1. CASE i = Len(log) + 1
          BY <3>2, <4>1, <5>1
        <5>2. CASE i # Len(log) + 1
          <6>1. i \in Len(log) - failures + 1 .. Len(log) /\ i \in 1 .. Len(log)
            BY <3>2, <4>1, <4>2, <5>2
          <6> QED
            BY <1>a, <3>2, <4>1, <4>2, <6>1
        <5> QED
          BY <5>1, <5>2
      <4>4. log'[Len(log') - failures' + 1] = firstFailAt'
        <5>1. Len(log') - failures' + 1 = Len(log) - failures + 1
              /\ Len(log) - failures + 1 \in 1 .. Len(log)
          BY <3>2, <4>1, <4>2
        <5> QED
          BY <1>a, <3>2, <4>1, <4>2, <5>1
      <4>5. failures' <= Len(log') /\ failures' # 0 /\ firstFailAt' # 0
        BY <3>2, <3>4, <4>1, <4>2
      <4> QED
        BY <4>3, <4>4, <4>5
    <3> QED
      BY <3>3, <3>4
  <2> QED
    BY <2>1, <2>2
<1> QED
  <2>1. ASSUME NEW c \in Caller, H!RecordFailure(c)
        PROVE  CountInv'
    BY <1>3, <2>1
  <2>2. ASSUME NEW c \in Caller, H!ResolveOk(c) \/ H!UnregisterFront(c)
        PROVE  CountInv'
    BY <1>1, <2>2 DEF H!ResolveOk, H!UnregisterFront, H!ClearAll, H!ClearFailures
  <2>3. ASSUME NEW c \in Caller, H!ResolveBegin(c)
        PROVE  CountInv'
    BY <1>1, <1>2, <2>3 DEF H!ResolveBegin, H!Expire, H!ClearAll, H!ClearFailures, H!failVars
  <2>4. CASE H!CheckQuarantine \/ H!Reinstate
    BY <1>1, <2>4 DEF H!CheckQuarantine, H!Reinstate, H!ClearAll, H!ClearFailures
  <2>5. CASE H!Tick
    BY <1>2, <2>5 DEF H!Tick, H!failVars
  <2>6. ASSUME NEW c \in Caller,
               \/ \E m \in Module : H!RegisterBegin(c, m)
               \/ H!InitFailed(c) \/ H!InitDone(c) \/ H!RegisterPublish(c)
               \/ H!UnregisterHost(c) \/ H!ShutdownDone(c) \/ H!AppShutdown(c)
               \/ H!OpenLookup(c) \/ H!OpenDone(c) \/ H!ResolveFailed(c)
        PROVE  CountInv'
    <3>1. UNCHANGED <<failures, firstFailAt, log>>
      BY <2>6 DEF H!RegisterBegin, H!InitFailed, H!InitDone, H!RegisterPublish,
                  H!UnregisterHost, H!ShutdownDone, H!AppShutdown, H!OpenLookup,
                  H!OpenDone, H!ResolveFailed, H!failVars
    <3> QED
      BY <1>2, <3>1
  <2> QED
    BY <2>1, <2>2, <2>3, <2>4, <2>5, <2>6 DEF H!Next

(* A step that begins a quarantine has the failures for it.                  *)
LEMMA QuarantineStep == HostsInv /\ H!Next => H!Earned
<1> SUFFICES ASSUME HostsInv, H!Next, until' # 0, until' # until
             PROVE  H!Earned
  BY DEF H!Earned
<1>a. H!TypeOK /\ CountInv
  BY DEF HostsInv
<1> USE HostsAssumption DEF H!TypeOK, CountInv
<1>1. PICK c \in Caller : H!RecordFailure(c)
  BY DEF H!Next, H!RegisterBegin, H!InitFailed, H!InitDone, H!RegisterPublish,
         H!UnregisterFront, H!UnregisterHost, H!ShutdownDone, H!AppShutdown, H!OpenLookup,
         H!OpenDone, H!ResolveBegin, H!Expire, H!ResolveOk, H!ResolveFailed,
         H!CheckQuarantine, H!Reinstate, H!Tick, H!ClearAll, H!failVars
<1>8. PICK t \in 1 .. MaxNow : t = failedAt[c]
  BY <1>1, <1>a DEF H!RecordFailure
<1>2. H!Counted(t) >= Threshold /\ until' = t + QuarantineFor
  BY <1>1, <1>8 DEF H!RecordFailure
<1>9. until' - QuarantineFor = t
  BY <1>2
<1> DEFINE all == Append(log, t)
<1>3. Len(all) = Len(log) + 1 /\ all[Len(log) + 1] = t
      /\ \A i \in 1 .. Len(log) : all[i] = log[i]
  BY <1>a
<1>7. failures \in Nat /\ Len(log) \in Nat /\ failures <= Len(log)
  BY <1>a
<1> HIDE DEF all
<1>5. CASE firstFailAt = 0 \/ t > firstFailAt + Window
  <2>1. Threshold = 1
    BY <1>2, <1>5 DEF H!Counted
  <2>2. /\ Len(all) - Threshold + 1 = Len(log) + 1
        /\ all[Len(log) + 1] <= all[Len(log) + 1] + Window
    BY <1>3, <1>7, <2>1
  <2>3. \A i \in Len(all) - Threshold + 1 .. Len(all) :
           all[i] <= all[Len(all) - Threshold + 1] + Window
    <3>1. \A i \in Len(log) + 1 .. Len(log) + 1 : i = Len(log) + 1
      BY <1>7
    <3> QED
      BY <1>3, <2>2, <3>1
  <2> QED
    BY <1>7, <1>9, <2>2, <2>3 DEF H!Earned, all
<1>6. CASE ~(firstFailAt = 0 \/ t > firstFailAt + Window)
  <2>1. failures + 1 = Threshold /\ failures # 0 /\ t <= firstFailAt + Window
    BY <1>2, <1>6, <1>a DEF H!Counted
  <2>2. Len(all) - Threshold + 1 = Len(log) - failures + 1
        /\ Len(log) - failures + 1 \in 1 .. Len(log)
    BY <1>3, <1>7, <2>1
  <2>3. all[Len(all) - Threshold + 1] = firstFailAt
    BY <1>a, <1>3, <2>1, <2>2
  <2>4. ASSUME NEW i \in Len(all) - Threshold + 1 .. Len(all)
        PROVE  all[i] <= firstFailAt + Window
    <3>1. CASE i = Len(log) + 1
      BY <1>3, <2>1, <3>1
    <3>2. CASE i # Len(log) + 1
      <4>1. i \in Len(log) - failures + 1 .. Len(log) /\ i \in 1 .. Len(log)
        BY <1>3, <1>7, <2>2, <3>2
      <4> QED
        BY <1>a, <1>3, <4>1
    <3> QED
      BY <3>1, <3>2
  <2> QED
    BY <1>9, <2>2, <2>3, <2>4 DEF H!Earned, all
<1> QED
  BY <1>5, <1>6

(* Every step of the hosts keeps their invariant.                            *)
LEMMA HostsStep == HostsInv /\ H!Next => HostsInv'
BY HostsTypeStep, HostsMapsStep, HostsCountStep DEF HostsInv

-----------------------------------------------------------------------------
(* The server of the plugin IPC                                             *)

ServerTypes ==
  /\ listening \in BOOLEAN /\ conns \subseteq Link
  /\ state \in [Link -> {"none", "dialled", "accepted", "open", "closed", "done"}]
  /\ acceptor \in {"accept", "insert", "exited"}
  /\ serve \in {"run", "join", "drain", "returned", "ended"}

(* An open connection is in the map, where CloseAll finds it; one that was     *)
(* accepted is entered by the accepting goroutine before it does anything      *)
(* else; and a Serve that is past its join has outlived that goroutine.       *)
AcceptInv ==
  /\ \A k \in Link : state[k] = "open" => k \in conns
  /\ \A k \in Link : state[k] = "accepted" => acceptor = "insert"
  /\ \A k, l \in Link : state[k] = "accepted" /\ state[l] = "accepted" => k = l
  /\ serve # "run" => ~listening
  /\ serve \in {"drain", "returned"} => acceptor = "exited"

ServerInv == ServerTypes /\ AcceptInv /\ S!ServeClosesConnections

(* Serve has just begun.                                                     *)
LEMMA ServerInit == S!Init => ServerInv
<1> SUFFICES ASSUME S!Init PROVE ServerInv
  OBVIOUS
<1>1. listening \in BOOLEAN
  BY DEF S!Init
<1>2. ServerTypes
  BY <1>1 DEF S!Init, ServerTypes
<1>3. AcceptInv /\ S!ServeClosesConnections
  BY DEF S!Init, AcceptInv, S!ServeClosesConnections
<1> QED
  BY <1>2, <1>3 DEF ServerInv

(* Every step of the server keeps its connections in the map.                *)
LEMMA ServerStep == ServerInv /\ S!Next => ServerInv'
<1> SUFFICES ASSUME ServerInv, S!Next
             PROVE  ServerInv'
  OBVIOUS
<1>a. ServerTypes /\ AcceptInv /\ S!ServeClosesConnections
  BY DEF ServerInv
<1> USE DEF ServerInv, ServerTypes, AcceptInv, S!ServeClosesConnections
<1>1. ASSUME NEW k \in Link, S!Dial(k)
      PROVE  ServerInv'
  BY <1>1, <1>a DEF S!Dial
<1>2. ASSUME NEW k \in Link, S!Accept(k)
      PROVE  ServerInv'
  BY <1>2, <1>a DEF S!Accept
<1>3. ASSUME NEW k \in Link, S!Insert(k)
      PROVE  ServerInv'
  BY <1>3, <1>a DEF S!Insert
<1>4. ASSUME NEW k \in Link, S!HandleEnd(k)
      PROVE  ServerInv'
  BY <1>4, <1>a DEF S!HandleEnd
<1>5. ASSUME NEW k \in Link, S!HandleForget(k)
      PROVE  ServerInv'
  BY <1>5, <1>a DEF S!HandleForget
<1>6. CASE S!AcceptFailed
  BY <1>6, <1>a DEF S!AcceptFailed
<1>7. CASE S!ServeCancelled
  BY <1>7, <1>a DEF S!ServeCancelled
<1>8. CASE S!ServeEnded
  BY <1>8, <1>a DEF S!ServeEnded
<1>9. CASE S!ServeJoin
  BY <1>9, <1>a DEF S!ServeJoin
<1>10. CASE S!ServeDrained
  BY <1>10, <1>a DEF S!ServeDrained, S!CloseAll
<1>11. CASE S!StopListener
  BY <1>11, <1>a DEF S!StopListener
<1>12. CASE S!StopConns
  BY <1>12, <1>a DEF S!StopConns, S!CloseAll
<1> QED
  BY <1>1, <1>2, <1>3, <1>4, <1>5, <1>6, <1>7, <1>8, <1>9, <1>10, <1>11, <1>12 DEF
     S!Next

(* A Serve whose context ended returns only when no connection is open.       *)
THEOREM ServeLeavesNoConnection == S!Spec => []S!ServeClosesConnections
<1>1. ServerInv /\ UNCHANGED S!vars => ServerInv'
  BY DEF S!vars, ServerInv, ServerTypes, AcceptInv, S!ServeClosesConnections
<1>2. ServerInv => S!ServeClosesConnections
  BY DEF ServerInv
<1> QED
  BY <1>1, <1>2, ServerInit, ServerStep, PTL DEF S!Spec

-----------------------------------------------------------------------------
(* The client of the plugin IPC implements Calls                            *)

Frame == [id : Nat, ok : BOOLEAN]
Requests == 1 .. nextID - 1

ClientTypes ==
  /\ nextID \in Nat \ {0}
  /\ inflight \subseteq Requests
  /\ ch \in Seq(Seq(Frame)) /\ Len(ch) = nextID - 1
  /\ owner \in Seq(Caller \X Nat) /\ Len(owner) = nextID - 1
  /\ callPc \in [Caller -> {"idle", "write", "wait"}]
  /\ id \in [Caller -> Nat]
  /\ last \in [Caller -> [no : Nat, st : {"idle", "waiting", "answered", "failed"}]]
  /\ out \in Seq(Nat) /\ in \in Seq(Frame)
  /\ hand \in Frame /\ pending \subseteq Requests
  /\ job \in Nat /\ served \subseteq Requests

(* Every answer, on the wire, in the reader's hand or on a channel, is to a   *)
(* request the server has dispatched, and on a channel it is to the request   *)
(* the channel belongs to, for all that is on it but an error.               *)
AnswerInv ==
  /\ \A i \in 1 .. Len(out) : out[i] \in Requests
  /\ handler = "reply" => job \in served
  /\ \A i \in 1 .. Len(in) : in[i].id \in served
  /\ reader = "deliver" => pending = {hand.id} /\ hand.id \in served
  /\ \A i \in Requests : ch[i] # <<>> /\ ch[i][1].ok => ch[i][1].id = i /\ i \in served

(* A caller that is inside a call has a request of its own, its last; and     *)
(* requests are numbered through, so nobody has made more calls than there    *)
(* are requests.                                                             *)
CallInv ==
  /\ \A c \in Caller :
       /\ last[c].no < nextID
       /\ callPc[c] = "idle" => last[c].st # "waiting"
       /\ callPc[c] # "idle" =>
            /\ last[c].st = "waiting" /\ id[c] \in Requests
            /\ owner[id[c]] = <<c, last[c].no>>
  /\ \A i \in Requests : owner[i][2] \in 1 .. last[owner[i][1]].no

ClientInv == ClientTypes /\ AnswerInv /\ CallInv

(* No request.                                                               *)
LEMMA ClientInit == C!Init => ClientInv
<1> SUFFICES ASSUME C!Init PROVE ClientInv
  OBVIOUS
<1> USE DEF C!Init
<1>1. nextID = 1 /\ Requests = {}
  BY DEF Requests
<1>2. ch \in Seq(Seq(Frame)) /\ Len(ch) = 0 /\ owner \in Seq(Caller \X Nat) /\ Len(owner) = 0
  OBVIOUS
<1>3. out \in Seq(Nat) /\ in \in Seq(Frame) /\ Len(out) = 0 /\ Len(in) = 0
  OBVIOUS
<1>4. hand \in Frame
  BY DEF C!NoFrame, Frame
<1>5. last \in [Caller -> [no : Nat, st : {"idle", "waiting", "answered", "failed"}]]
  OBVIOUS
<1>6. ClientTypes
  BY <1>1, <1>2, <1>3, <1>4, <1>5 DEF ClientTypes
<1>7. AnswerInv
  BY <1>1, <1>3 DEF AnswerInv
<1>8. CallInv
  BY <1>1 DEF CallInv
<1> QED
  BY <1>6, <1>7, <1>8 DEF ClientInv

(* What an answer on the channel means: the call was answered, and dispatched  *)
(* before, or it failed.                                                     *)
LEMMA TakenIsOwn ==
  ASSUME ClientInv, NEW c \in Caller, callPc[c] # "idle", ch[id[c]] # <<>>
  PROVE  /\ C!Taken(c) \in {"answered", "failed"}
         /\ C!Taken(c) = "answered" => id[c] \in served
<1>1. id[c] \in Requests /\ id[c] \in 1 .. Len(ch)
  BY DEF ClientInv, ClientTypes, CallInv, Requests
<1>2. ch[id[c]] \in Seq(Frame)
  BY <1>1 DEF ClientInv, ClientTypes
<1>3. ch[id[c]][1] \in Frame
  BY <1>2
<1>4. ch[id[c]][1].ok => ch[id[c]][1].id = id[c] /\ id[c] \in served
  BY <1>1 DEF ClientInv, AnswerInv
<1> QED
  BY <1>3, <1>4 DEF C!Taken, Frame

(* Whose call a request is.                                                  *)
LEMMA OwnerTypes ==
  ASSUME ClientTypes, NEW i \in Requests
  PROVE  owner[i] \in Caller \X Nat /\ owner[i][1] \in Caller /\ owner[i][2] \in Nat
<1>1. owner \in Seq(Caller \X Nat) /\ i \in 1 .. Len(owner)
  BY DEF ClientTypes, Requests
<1>2. owner[i] \in Caller \X Nat
  BY <1>1
<1> QED
  BY <1>2

(* A caller that returns keeps the numbering and has no request any more.     *)
LEMMA ReturnKeepsCalls ==
  ASSUME ClientInv, NEW c \in Caller, NEW how \in {"answered", "failed"}, C!Returns(c, how),
         UNCHANGED <<nextID, owner>>
  PROVE  /\ callPc' \in [Caller -> {"idle", "write", "wait"}] /\ id' \in [Caller -> Nat]
         /\ last' \in [Caller -> [no : Nat, st : {"idle", "waiting", "answered", "failed"}]]
         /\ CallInv'
<1>1. callPc' \in [Caller -> {"idle", "write", "wait"}] /\ id' \in [Caller -> Nat]
  BY DEF ClientInv, ClientTypes, C!Returns
<1>2. last' \in [Caller -> [no : Nat, st : {"idle", "waiting", "answered", "failed"}]]
  BY DEF ClientInv, ClientTypes, C!Returns
<1>3. \A d \in Caller : last'[d].no = last[d].no
  BY DEF ClientInv, ClientTypes, C!Returns
<1>4. /\ last'[c].st = how /\ callPc'[c] = "idle"
      /\ \A d \in Caller \ {c} : last'[d] = last[d] /\ callPc'[d] = callPc[d] /\ id'[d] = id[d]
  BY DEF ClientInv, ClientTypes, C!Returns
<1>5. \A i \in Requests : owner[i][1] \in Caller
  BY OwnerTypes DEF ClientInv
<1>6. Requests' = Requests
  BY DEF Requests
<1>7. ASSUME NEW d \in Caller
      PROVE  /\ last'[d].no < nextID'
             /\ callPc'[d] = "idle" => last'[d].st # "waiting"
             /\ callPc'[d] # "idle" =>
                  /\ last'[d].st = "waiting" /\ id'[d] \in Requests'
                  /\ owner'[id'[d]] = <<d, last'[d].no>>
  BY <1>3, <1>4, <1>6 DEF ClientInv, CallInv
<1>8. \A i \in Requests' : owner'[i][2] \in 1 .. last'[owner'[i][1]].no
  BY <1>3, <1>5, <1>6 DEF ClientInv, CallInv
<1> QED
  BY <1>1, <1>2, <1>7, <1>8 DEF CallInv

(* A frame goes on an empty channel: an error, or the answer in hand.         *)
LEMMA SentKeepsAnswers ==
  ASSUME ClientInv, NEW i \in Requests, NEW frame \in Frame, C!Sent(i, frame),
         frame.ok => frame.id = i /\ i \in served
  PROVE  /\ ch' \in Seq(Seq(Frame)) /\ Len(ch') = Len(ch)
         /\ \A j \in Requests : ch'[j] # <<>> /\ ch'[j][1].ok => ch'[j][1].id = j /\ j \in served
<1>1. ch \in Seq(Seq(Frame)) /\ i \in 1 .. Len(ch) /\ Len(ch) = nextID - 1
  BY DEF ClientInv, ClientTypes, Requests
<1>2. <<frame>> \in Seq(Frame) /\ <<frame>>[1] = frame
  OBVIOUS
<1>3. ch' = [ch EXCEPT ![i] = <<frame>>]
  BY DEF C!Sent
<1>4. ch' \in Seq(Seq(Frame)) /\ Len(ch') = Len(ch)
      /\ ch'[i] = <<frame>> /\ \A j \in 1 .. Len(ch) : j # i => ch'[j] = ch[j]
  BY <1>1, <1>2, <1>3
<1>5. \A j \in Requests : ch'[j] # <<>> /\ ch'[j][1].ok => ch'[j][1].id = j /\ j \in served
  BY <1>1, <1>2, <1>4 DEF ClientInv, AnswerInv, Requests
<1> QED
  BY <1>4, <1>5

(* Calls keep what they are about when neither they nor the requests change.   *)
LEMMA CallsStay ==
  ASSUME CallInv, UNCHANGED <<nextID, owner, id, last>>,
         \A c \in Caller : (callPc'[c] = "idle") = (callPc[c] = "idle")
  PROVE  CallInv'
  BY DEF CallInv, Requests

(* A call begins: its request is the newest.                                  *)
LEMMA BeginKeeps == ASSUME ClientInv, NEW c \in Caller, C!CallBegin(c) PROVE ClientInv'
<1>a. ClientTypes /\ AnswerInv /\ CallInv
  BY DEF ClientInv
<1>b. /\ callPc[c] = "idle" /\ nextID' = nextID + 1 /\ inflight' = inflight \cup {nextID}
      /\ ch' = Append(ch, <<>>) /\ owner' = Append(owner, <<c, last[c].no + 1>>)
      /\ callPc' = [callPc EXCEPT ![c] = "write"] /\ id' = [id EXCEPT ![c] = nextID]
      /\ last' = [last EXCEPT ![c] = [no |-> @.no + 1, st |-> "waiting"]]
      /\ UNCHANGED <<out, in, reader, hand, pending, handler, job, served>>
  BY DEF C!CallBegin, C!sideVars, C!serverVars, C!readVars
<1>c. /\ last[c] \in [no : Nat, st : {"idle", "waiting", "answered", "failed"}]
      /\ last[c].no \in Nat /\ nextID \in Nat \ {0}
  BY <1>a DEF ClientTypes
<1>d. Requests' = Requests \cup {nextID} /\ nextID \notin Requests
  BY <1>b, <1>c DEF Requests
<1>1. /\ last' \in [Caller -> [no : Nat, st : {"idle", "waiting", "answered", "failed"}]]
      /\ last'[c] = [no |-> last[c].no + 1, st |-> "waiting"]
      /\ \A d \in Caller \ {c} : last'[d] = last[d]
  BY <1>a, <1>b, <1>c DEF ClientTypes
<1>2. /\ callPc' \in [Caller -> {"idle", "write", "wait"}] /\ id' \in [Caller -> Nat]
      /\ callPc'[c] = "write" /\ id'[c] = nextID
      /\ \A d \in Caller \ {c} : callPc'[d] = callPc[d] /\ id'[d] = id[d]
  BY <1>a, <1>b, <1>c DEF ClientTypes
<1>3. /\ ch' \in Seq(Seq(Frame)) /\ Len(ch') = nextID /\ ch'[nextID] = <<>>
      /\ \A i \in Requests : ch'[i] = ch[i]
  <2>1. <<>> \in Seq(Frame) /\ ch \in Seq(Seq(Frame)) /\ Len(ch) = nextID - 1
    BY <1>a DEF ClientTypes
  <2> QED
    BY <2>1, <1>b, <1>c DEF Requests
<1>4. /\ owner' \in Seq(Caller \X Nat) /\ Len(owner') = nextID
      /\ owner'[nextID] = <<c, last[c].no + 1>> /\ \A i \in Requests : owner'[i] = owner[i]
  <2>1. owner \in Seq(Caller \X Nat) /\ Len(owner) = nextID - 1
    BY <1>a DEF ClientTypes
  <2>2. <<c, last[c].no + 1>> \in Caller \X Nat
    BY <1>c
  <2> QED
    BY <2>1, <2>2, <1>b, <1>c DEF Requests
<1>5. ClientTypes'
  BY <1>a, <1>b, <1>c, <1>d, <1>1, <1>2, <1>3, <1>4 DEF ClientTypes
<1>6. AnswerInv'
  BY <1>a, <1>b, <1>d, <1>3 DEF AnswerInv
<1>7. ASSUME NEW d \in Caller
      PROVE  /\ last'[d].no < nextID'
             /\ callPc'[d] = "idle" => last'[d].st # "waiting"
             /\ callPc'[d] # "idle" =>
                  /\ last'[d].st = "waiting" /\ id'[d] \in Requests'
                  /\ owner'[id'[d]] = <<d, last'[d].no>>
  <2>1. CASE d = c
    <3>1. last[c].no < nextID
      BY <1>a DEF CallInv
    <3>2. last'[c].no = last[c].no + 1 /\ last'[c].st = "waiting"
      BY <1>1
    <3>3. last'[c].no < nextID'
      BY <1>b, <1>c, <3>1, <3>2
    <3> QED
      BY <2>1, <1>d, <1>2, <1>4, <3>2, <3>3
  <2>2. CASE d # c
    <3>1. last'[d] = last[d] /\ callPc'[d] = callPc[d] /\ id'[d] = id[d]
      BY <1>1, <1>2, <2>2
    <3>2. last[d].no < nextID' /\ last[d].no \in Nat
      BY <1>a, <1>b, <1>c DEF CallInv, ClientTypes
    <3>3. callPc[d] # "idle" => id[d] \in Requests /\ owner'[id[d]] = <<d, last[d].no>>
      BY <1>a, <1>4 DEF CallInv
    <3> QED
      BY <1>a, <1>d, <3>1, <3>2, <3>3 DEF CallInv
  <2> QED
    BY <2>1, <2>2
<1>8. ASSUME NEW i \in Requests'
      PROVE  owner'[i][2] \in 1 .. last'[owner'[i][1]].no
  <2>1. CASE i = nextID
    BY <2>1, <1>c, <1>1, <1>4
  <2>2. CASE i \in Requests
    <3>1. owner'[i] = owner[i] /\ owner[i][1] \in Caller /\ owner[i][2] \in Nat
      BY <1>a, <1>4, <2>2, OwnerTypes
    <3>2. owner[i][2] \in 1 .. last[owner[i][1]].no
      BY <1>a, <2>2 DEF CallInv
    <3>3. last[owner[i][1]].no \in Nat /\ last'[owner[i][1]].no \in {last[owner[i][1]].no, last[owner[i][1]].no + 1}
      <4>1. \A d \in Caller : last[d].no \in Nat
        BY <1>a DEF ClientTypes
      <4>2. \A d \in Caller : last'[d].no \in {last[d].no, last[d].no + 1}
        BY <1>1
      <4> QED
        BY <3>1, <4>1, <4>2
    <3> QED
      BY <3>1, <3>2, <3>3
  <2> QED
    BY <1>d, <2>1, <2>2
<1>9. CallInv'
  BY <1>7, <1>8 DEF CallInv
<1> QED
  BY <1>5, <1>6, <1>9 DEF ClientInv

(* A call that returns takes its answer from its channel, if it has one.       *)
LEMMA ReturnKeeps ==
  ASSUME ClientInv, NEW c \in Caller, NEW how \in {"answered", "failed"}, C!Returns(c, how),
         UNCHANGED <<nextID, owner, out, in, reader, hand, pending, handler, job, served>>,
         inflight' \subseteq inflight, id[c] \in Requests,
         ch' = ch \/ ch' = [ch EXCEPT ![id[c]] = <<>>]
  PROVE  ClientInv'
<1>a. ClientTypes /\ AnswerInv
  BY DEF ClientInv
<1>b. Requests' = Requests
  BY DEF Requests
<1>1. ch' \in Seq(Seq(Frame)) /\ Len(ch') = Len(ch)
      /\ \A i \in Requests : ch'[i] = ch[i] \/ ch'[i] = <<>>
  <2>1. <<>> \in Seq(Frame) /\ ch \in Seq(Seq(Frame)) /\ Len(ch) = nextID - 1
    BY <1>a DEF ClientTypes
  <2>2. CASE ch' = ch
    BY <2>1, <2>2
  <2>3. CASE ch' = [ch EXCEPT ![id[c]] = <<>>]
    BY <2>1, <2>3 DEF Requests
  <2> QED
    BY <2>2, <2>3
<1>2. AnswerInv'
  BY <1>a, <1>b, <1>1 DEF AnswerInv
<1>3. ClientTypes'
  BY <1>a, <1>b, <1>1, ReturnKeepsCalls DEF ClientTypes
<1> QED
  BY <1>2, <1>3, ReturnKeepsCalls DEF ClientInv

(* The reader puts the answer in hand on the channel of its request.          *)
LEMMA DeliverKeeps == ASSUME ClientInv, C!Deliver PROVE ClientInv'
<1>a. ClientTypes /\ AnswerInv /\ CallInv
  BY DEF ClientInv
<1>b. /\ reader = "deliver" /\ reader' = "read" /\ hand' = C!NoFrame /\ pending' = {}
      /\ UNCHANGED <<nextID, inflight, owner, callPc, id, last, out, in, handler, job, served>>
  BY DEF C!Deliver, C!sideVars, C!serverVars, C!callVars
<1>c. Requests' = Requests
  BY <1>b DEF Requests
<1>d. PICK i \in pending : C!Sent(i, hand)
  BY DEF C!Deliver
<1>e. i \in Requests /\ hand \in Frame /\ hand.id = i /\ i \in served
  BY <1>a, <1>b, <1>d DEF ClientTypes, AnswerInv
<1>1. /\ ch' \in Seq(Seq(Frame)) /\ Len(ch') = Len(ch)
      /\ \A j \in Requests : ch'[j] # <<>> /\ ch'[j][1].ok => ch'[j][1].id = j /\ j \in served
  BY <1>d, <1>e, SentKeepsAnswers
<1>2. C!NoFrame \in Frame
  BY DEF C!NoFrame, Frame
<1>3. ClientTypes'
  BY <1>a, <1>b, <1>c, <1>1, <1>2 DEF ClientTypes
<1>4. AnswerInv'
  BY <1>a, <1>b, <1>c, <1>1 DEF AnswerInv
<1>5. CallInv'
  BY <1>a, <1>b, CallsStay
<1> QED
  BY <1>3, <1>4, <1>5 DEF ClientInv

(* The reader fails a request that was in flight when the connection was lost. *)
LEMMA FailKeeps == ASSUME ClientInv, C!FailNext PROVE ClientInv'
<1>a. ClientTypes /\ AnswerInv /\ CallInv
  BY DEF ClientInv
<1>b. /\ reader = "failing" /\ reader' \in {"failing", "gone"}
      /\ pending' \subseteq pending
      /\ UNCHANGED <<nextID, inflight, owner, hand, callPc, id, last, out, in, handler, job, served>>
  BY DEF C!FailNext, C!sideVars, C!serverVars, C!callVars
<1>c. Requests' = Requests
  BY <1>b DEF Requests
<1>d. C!NoFrame \in Frame /\ ~C!NoFrame.ok
  BY DEF C!NoFrame, Frame
<1>1. /\ ch' \in Seq(Seq(Frame)) /\ Len(ch') = Len(ch)
      /\ \A j \in Requests : ch'[j] # <<>> /\ ch'[j][1].ok => ch'[j][1].id = j /\ j \in served
  <2>1. CASE \E i \in pending : C!Sent(i, C!NoFrame)
    <3>1. PICK i \in pending : C!Sent(i, C!NoFrame)
      BY <2>1
    <3>2. i \in Requests
      BY <1>a, <3>1 DEF ClientTypes
    <3> QED
      BY <1>d, <3>1, <3>2, SentKeepsAnswers
  <2>2. CASE ch' = ch
    BY <1>a, <2>2 DEF ClientTypes, AnswerInv
  <2> QED
    BY <2>1, <2>2 DEF C!FailNext
<1>3. ClientTypes'
  BY <1>a, <1>b, <1>c, <1>1 DEF ClientTypes
<1>4. AnswerInv'
  BY <1>a, <1>b, <1>c, <1>1 DEF AnswerInv
<1>5. CallInv'
  BY <1>a, <1>b, CallsStay
<1> QED
  BY <1>3, <1>4, <1>5 DEF ClientInv

(* Steps of the socket, of the reader's map and of the server's side.         *)
LEMMA WireKeeps ==
  ASSUME ClientInv, C!Read \/ C!ReadFailed \/ C!HandleRead \/ C!HandleReply \/ C!HandleExit
                    \/ C!ConnDown \/ (\E c \in Caller : C!Write(c)) \/ UNCHANGED C!vars
  PROVE  ClientInv'
<1>a. ClientTypes /\ AnswerInv /\ CallInv
  BY DEF ClientInv
<1>b. UNCHANGED <<nextID, ch, owner, id, last>>
  BY DEF C!Read, C!ReadFailed, C!HandleRead, C!HandleReply, C!HandleExit, C!ConnDown, C!Write,
         C!vars, C!sideVars, C!serverVars, C!readVars, C!mapVars, C!callVars
<1>c. Requests' = Requests
  BY <1>b DEF Requests
<1>d. ClientTypes' /\ AnswerInv' /\ CallInv'
  <2>1. CASE C!Read
    <3>1. /\ reader = "read" /\ in # <<>> /\ in' = Tail(in)
          /\ inflight' \subseteq inflight
          /\ UNCHANGED <<callPc, out, handler, job, served>>
          /\ \/ UNCHANGED <<reader, hand, pending>>
             \/ /\ reader' = "deliver" /\ hand' = Head(in) /\ pending' = {Head(in).id}
                /\ Head(in).id \in inflight
      BY <2>1 DEF C!Read, C!Routed, C!readVars, C!serverVars, C!callVars
    <3>2. in \in Seq(Frame) /\ Head(in) = in[1] /\ Head(in) \in Frame /\ Len(in) > 0
      BY <1>a, <3>1 DEF ClientTypes
    <3>3. in' \in Seq(Frame) /\ \A i \in 1 .. Len(in') : i + 1 \in 1 .. Len(in) /\ in'[i] = in[i + 1]
      BY <3>1, <3>2
    <3>4. ClientTypes'
      BY <1>a, <1>b, <1>c, <3>1, <3>2, <3>3 DEF ClientTypes
    <3>5. Head(in).id \in served /\ \A i \in 1 .. Len(in') : in'[i].id \in served
      BY <1>a, <3>2, <3>3 DEF AnswerInv
    <3>6. AnswerInv'
      BY <1>a, <1>b, <1>c, <3>1, <3>5 DEF AnswerInv
    <3> QED
      BY <1>a, <1>b, <3>1, <3>4, <3>6, CallsStay
  <2>2. CASE C!ReadFailed
    <3>1. /\ reader' = "failing" /\ pending' = inflight /\ inflight' = {}
          /\ UNCHANGED <<callPc, hand, out, in, handler, job, served>>
      BY <2>2 DEF C!ReadFailed, C!Orphans, C!sideVars, C!serverVars, C!callVars
    <3>2. ClientTypes'
      BY <1>a, <1>b, <1>c, <3>1 DEF ClientTypes
    <3>3. AnswerInv'
      BY <1>a, <1>b, <1>c, <3>1 DEF AnswerInv
    <3> QED
      BY <1>a, <1>b, <3>1, <3>2, <3>3, CallsStay
  <2>3. CASE C!HandleRead
    <3>1. /\ out # <<>> /\ job' = Head(out) /\ out' = Tail(out) /\ served' = served \cup {Head(out)}
          /\ handler' = "reply"
          /\ UNCHANGED <<callPc, inflight, in, reader, hand, pending>>
      BY <2>3 DEF C!HandleRead, C!readVars, C!mapVars, C!callVars
    <3>2. out \in Seq(Nat) /\ Head(out) = out[1] /\ Head(out) \in Requests /\ Head(out) \in Nat
      BY <1>a, <3>1 DEF ClientTypes, AnswerInv
    <3>3. out' \in Seq(Nat) /\ \A i \in 1 .. Len(out') : i + 1 \in 1 .. Len(out) /\ out'[i] = out[i + 1]
      BY <3>1, <3>2
    <3>4. ClientTypes'
      BY <1>a, <1>b, <1>c, <3>1, <3>2, <3>3 DEF ClientTypes
    <3>5. \A i \in 1 .. Len(out') : out'[i] \in Requests
      BY <1>a, <3>3 DEF AnswerInv
    <3>6. AnswerInv'
      BY <1>a, <1>b, <1>c, <3>1, <3>5 DEF AnswerInv
    <3> QED
      BY <1>a, <1>b, <3>1, <3>4, <3>6, CallsStay
  <2>4. CASE C!HandleReply
    <3>1. /\ handler = "reply" /\ handler' = "read" /\ job' = 0
          /\ UNCHANGED <<callPc, inflight, out, served, reader, hand, pending>>
      BY <2>4 DEF C!HandleReply, C!readVars, C!mapVars, C!callVars
    <3>2. PICK ok \in BOOLEAN : in' = Append(in, [id |-> job, ok |-> ok])
      BY <2>4 DEF C!HandleReply
    <3>3. in \in Seq(Frame) /\ [id |-> job, ok |-> ok] \in Frame /\ job \in served
      BY <1>a, <3>1 DEF ClientTypes, Frame, AnswerInv
    <3>4. in' \in Seq(Frame) /\ Len(in') = Len(in) + 1 /\ in'[Len(in')] = [id |-> job, ok |-> ok]
          /\ \A i \in 1 .. Len(in) : in'[i] = in[i]
      BY <3>2, <3>3
    <3>5. \A i \in 1 .. Len(in') : in'[i].id \in served
      BY <1>a, <3>3, <3>4 DEF AnswerInv
    <3>6. ClientTypes'
      BY <1>a, <1>b, <1>c, <3>1, <3>4 DEF ClientTypes
    <3>7. AnswerInv'
      BY <1>a, <1>b, <1>c, <3>1, <3>5 DEF AnswerInv
    <3> QED
      BY <1>a, <1>b, <3>1, <3>6, <3>7, CallsStay
  <2>5. CASE C!HandleExit
    <3>1. /\ handler' = "gone" /\ job' = 0
          /\ UNCHANGED <<callPc, inflight, out, in, served, reader, hand, pending>>
      BY <2>5 DEF C!HandleExit, C!sideVars, C!readVars, C!mapVars, C!callVars
    <3>2. ClientTypes'
      BY <1>a, <1>b, <1>c, <3>1 DEF ClientTypes
    <3>3. AnswerInv'
      BY <1>a, <1>b, <1>c, <3>1 DEF AnswerInv
    <3> QED
      BY <1>a, <1>b, <3>1, <3>2, <3>3, CallsStay
  <2>6. CASE C!ConnDown
    <3>1. /\ out' = <<>>
          /\ UNCHANGED <<callPc, inflight, handler, job, served, reader, hand, pending>>
      BY <2>6 DEF C!ConnDown, C!serverVars, C!readVars, C!mapVars, C!callVars
    <3>2. PICK n \in 0 .. Len(in) : in' = SubSeq(in, 1, n)
      BY <2>6 DEF C!ConnDown
    <3>3. in \in Seq(Frame)
      BY <1>a DEF ClientTypes
    <3>4. in' \in Seq(Frame) /\ \A i \in 1 .. Len(in') : i \in 1 .. Len(in) /\ in'[i] = in[i]
      BY <3>2, <3>3
    <3>5. out' \in Seq(Nat) /\ Len(out') = 0
      BY <3>1
    <3>6. ClientTypes'
      BY <1>a, <1>b, <1>c, <3>1, <3>4, <3>5 DEF ClientTypes
    <3>7. AnswerInv'
      BY <1>a, <1>b, <1>c, <3>1, <3>4, <3>5 DEF AnswerInv
    <3> QED
      BY <1>a, <1>b, <3>1, <3>6, <3>7, CallsStay
  <2>7. ASSUME NEW c \in Caller, C!Write(c)
        PROVE  ClientTypes' /\ AnswerInv' /\ CallInv'
    <3>1. /\ callPc[c] = "write" /\ out' = Append(out, id[c]) /\ callPc' = [callPc EXCEPT ![c] = "wait"]
          /\ UNCHANGED <<inflight, in, handler, job, served, reader, hand, pending>>
      BY <2>7 DEF C!Write, C!serverVars, C!readVars, C!mapVars
    <3>2. out \in Seq(Nat) /\ id[c] \in Requests /\ id[c] \in Nat
      BY <1>a, <3>1 DEF ClientTypes, CallInv
    <3>3. out' \in Seq(Nat) /\ Len(out') = Len(out) + 1 /\ out'[Len(out')] = id[c]
          /\ \A i \in 1 .. Len(out) : out'[i] = out[i]
      BY <3>1, <3>2
    <3>4. \A i \in 1 .. Len(out') : out'[i] \in Requests
      <4>1. Len(out) \in Nat /\ \A i \in 1 .. Len(out) : out[i] \in Requests
        BY <1>a, <3>2 DEF AnswerInv
      <4>2. \A i \in 1 .. Len(out') : i \in 1 .. Len(out) \/ i = Len(out')
        BY <3>3, <4>1
      <4> QED
        BY <3>2, <3>3, <4>1, <4>2
    <3>5. ClientTypes'
      BY <1>a, <1>b, <1>c, <3>1, <3>3 DEF ClientTypes
    <3>6. AnswerInv'
      BY <1>a, <1>b, <1>c, <3>1, <3>4 DEF AnswerInv
    <3>7. \A d \in Caller : (callPc'[d] = "idle") = (callPc[d] = "idle")
      BY <1>a, <3>1 DEF ClientTypes
    <3> QED
      BY <1>a, <1>b, <3>5, <3>6, <3>7, CallsStay
  <2>8. CASE UNCHANGED C!vars
    <3>1. UNCHANGED <<callPc, inflight, out, in, handler, job, served, reader, hand, pending>>
      BY <2>8 DEF C!vars, C!sideVars, C!serverVars, C!readVars, C!mapVars, C!callVars
    <3>2. ClientTypes'
      BY <1>a, <1>b, <1>c, <3>1 DEF ClientTypes
    <3>3. AnswerInv'
      BY <1>a, <1>b, <1>c, <3>1 DEF AnswerInv
    <3> QED
      BY <1>a, <1>b, <3>1, <3>2, <3>3, CallsStay
  <2> QED
    BY <2>1, <2>2, <2>3, <2>4, <2>5, <2>6, <2>7, <2>8
<1> QED
  BY <1>d DEF ClientInv

(* Of a caller that waits: it has a request, and the call is its last.         *)
LEMMA InsideCall ==
  ASSUME ClientInv, NEW c \in Caller, callPc[c] # "idle"
  PROVE  id[c] \in Requests /\ last[c].st = "waiting" /\ owner[id[c]] = <<c, last[c].no>>
  BY DEF ClientInv, CallInv

(* Every step of the client and its peer keeps the invariant.                 *)
LEMMA ClientStep == ClientInv /\ [C!Next]_(C!vars) => ClientInv'
<1> SUFFICES ASSUME ClientInv, [C!Next]_(C!vars)
             PROVE  ClientInv'
  OBVIOUS
<1>1. ASSUME NEW c \in Caller, C!WriteFailed(c) \/ C!GiveUp(c)
      PROVE  ClientInv'
  <2>1. /\ C!Returns(c, "failed") /\ callPc[c] # "idle" /\ inflight' \subseteq inflight /\ ch' = ch
        /\ UNCHANGED <<nextID, owner, out, in, reader, hand, pending, handler, job, served>>
    BY <1>1 DEF C!WriteFailed, C!GiveUp, C!Abandon, C!sideVars, C!serverVars, C!readVars
  <2> QED
    BY <2>1, InsideCall, ReturnKeeps
<1>2. ASSUME NEW c \in Caller, C!Receive(c)
      PROVE  ClientInv'
  <2>1. /\ C!Returns(c, C!Taken(c)) /\ callPc[c] # "idle" /\ inflight' = inflight /\ ch[id[c]] # <<>>
        /\ ch' = [ch EXCEPT ![id[c]] = <<>>]
        /\ UNCHANGED <<nextID, owner, out, in, reader, hand, pending, handler, job, served>>
    BY <1>2 DEF C!Receive, C!sideVars, C!serverVars, C!readVars
  <2>2. C!Taken(c) \in {"answered", "failed"}
    BY <2>1, TakenIsOwn
  <2>3. id[c] \in Requests
    BY <2>1, InsideCall
  <2> QED
    BY <2>1, <2>2, <2>3, ReturnKeeps
<1> QED
  BY <1>1, <1>2, BeginKeeps, DeliverKeeps, FailKeeps, WireKeeps DEF C!Next

(* Each step of the client is a step of Calls or changes nothing it shows.     *)
LEMMA ClientRefines ==
  ClientInv /\ [C!Next]_(C!vars) => [C!Abstract!Next]_(C!Abstract!vars)
<1> SUFFICES ASSUME ClientInv, [C!Next]_(C!vars)
             PROVE  [C!Abstract!Next]_(C!Abstract!vars)
  OBVIOUS
<1> DEFINE handled == {owner[i] : i \in served}
<1>a. ClientTypes /\ AnswerInv /\ CallInv
  BY DEF ClientInv
<1>b. served \subseteq Requests
  BY <1>a DEF ClientTypes
<1>h. UNCHANGED <<owner, served>> => handled' = handled
  OBVIOUS
<1>1. ASSUME NEW c \in Caller, C!CallBegin(c)
      PROVE  C!Abstract!Ask(c)
  <2>1. /\ callPc[c] = "idle" /\ nextID <= MaxCalls /\ served' = served
        /\ owner' = Append(owner, <<c, last[c].no + 1>>)
        /\ last' = [last EXCEPT ![c] = [no |-> @.no + 1, st |-> "waiting"]]
    BY <1>1 DEF C!CallBegin, C!serverVars
  <2>2. last[c].st # "waiting" /\ last[c].no < nextID /\ last[c].no \in Nat /\ nextID \in Nat
    BY <1>a, <2>1 DEF CallInv, ClientTypes
  <2>3. \A i \in served : owner'[i] = owner[i]
    <3>1. owner \in Seq(Caller \X Nat) /\ served \subseteq 1 .. Len(owner)
      BY <1>a DEF ClientTypes, Requests
    <3>2. <<c, last[c].no + 1>> \in Caller \X Nat
      BY <2>2
    <3> QED
      BY <2>1, <3>1, <3>2
  <2>4. handled' = handled
    BY <2>1, <2>3
  <2>5. last[c].no < MaxCalls
    BY <2>1, <2>2, ClientAssumption
  <2> QED
    BY <2>1, <2>2, <2>4, <2>5 DEF C!Abstract!Ask
<1>2. ASSUME NEW c \in Caller, C!WriteFailed(c) \/ C!GiveUp(c)
      PROVE  C!Abstract!Fail(c)
  <2>1. callPc[c] # "idle" /\ last' = [last EXCEPT ![c].st = "failed"] /\ UNCHANGED <<owner, served>>
    BY <1>2 DEF C!WriteFailed, C!GiveUp, C!Returns, C!serverVars
  <2> QED
    BY <1>h, <2>1, InsideCall DEF C!Abstract!Fail
<1>3. ASSUME NEW c \in Caller, C!Receive(c)
      PROVE  C!Abstract!Answer(c) \/ C!Abstract!Fail(c)
  <2>1. /\ callPc[c] # "idle" /\ ch[id[c]] # <<>> /\ last' = [last EXCEPT ![c].st = C!Taken(c)]
        /\ UNCHANGED <<owner, served>>
    BY <1>3 DEF C!Receive, C!Returns, C!serverVars
  <2>2. last[c].st = "waiting" /\ owner[id[c]] = <<c, last[c].no>>
    BY <2>1, InsideCall
  <2>3. CASE C!Taken(c) = "answered"
    <3>1. id[c] \in served
      BY <2>1, <2>3, TakenIsOwn
    <3>2. <<c, last[c].no>> \in handled
      BY <2>2, <3>1
    <3> QED
      BY <1>h, <2>1, <2>2, <2>3, <3>2 DEF C!Abstract!Answer
  <2>4. CASE C!Taken(c) = "failed"
    BY <1>h, <2>1, <2>2, <2>4 DEF C!Abstract!Fail
  <2> QED
    BY <2>1, <2>3, <2>4, TakenIsOwn
<1>4. ASSUME C!HandleRead
      PROVE  \E c \in Caller : C!Abstract!Dispatch(c)
  <2>1. out # <<>> /\ served' = served \cup {Head(out)} /\ UNCHANGED <<owner, last>>
    BY <1>4 DEF C!HandleRead, C!mapVars, C!callVars
  <2>2. Head(out) \in Requests
    BY <1>a, <2>1 DEF ClientTypes, AnswerInv
  <2> DEFINE asked1 == owner[Head(out)]
  <2>3. /\ asked1 \in Caller \X Nat /\ asked1[1] \in Caller /\ asked1[2] \in 1 .. last[asked1[1]].no
        /\ asked1 = <<asked1[1], asked1[2]>>
    BY <1>a, <2>2, OwnerTypes DEF CallInv
  <2>4. handled' = handled \cup {asked1}
    BY <2>1
  <2> QED
    BY <2>1, <2>3, <2>4 DEF C!Abstract!Dispatch
<1>5. ASSUME \/ C!Read \/ C!Deliver \/ C!ReadFailed \/ C!FailNext \/ C!HandleReply \/ C!HandleExit
             \/ C!ConnDown \/ (\E c \in Caller : C!Write(c)) \/ UNCHANGED C!vars
      PROVE  UNCHANGED C!Abstract!vars
  <2>1. UNCHANGED <<last, owner, served>>
    BY <1>5 DEF C!Read, C!Deliver, C!ReadFailed, C!FailNext, C!HandleReply, C!HandleExit, C!ConnDown,
                C!Write, C!vars, C!sideVars, C!serverVars, C!readVars, C!mapVars, C!callVars
  <2> QED
    BY <1>h, <2>1 DEF C!Abstract!vars
<1> QED
  BY <1>1, <1>2, <1>3, <1>4, <1>5 DEF C!Next, C!Abstract!Next

(* No call was made.                                                         *)
LEMMA ClientRefinesInit == C!Init => C!Abstract!Init
  BY DEF C!Init, C!Abstract!Init

(* The client of the plugin IPC implements Calls: a caller takes only the     *)
(* answer to its own call, and only after the server dispatched it.           *)
THEOREM ClientImplementsCalls == C!Spec => C!ImplementsCalls
  BY ClientInit, ClientStep, ClientRefines, ClientRefinesInit, PTL
  DEF C!Spec, C!ImplementsCalls, C!Abstract!Spec

(* A request is in flight, or in the reader's hands, or its channel holds the  *)
(* answer, so long as its caller waits; a channel the reader is still to send  *)
(* on is empty, and only it sends.  The first half makes the last send of      *)
(* readLoop reach everyone who waits, the second keeps that send from          *)
(* blocking.                                                                 *)
WaitInv ==
  /\ \A c \in Caller :
       callPc[c] # "idle" => id[c] \in inflight \/ id[c] \in pending \/ ch[id[c]] # <<>>
  /\ \A i \in inflight \cup pending : ch[i] = <<>>
  /\ inflight \cap pending = {}
  /\ closed => inflight = {}
  /\ reader \in {"failing", "gone"} => closed
  /\ reader \in {"read", "gone"} => pending = {}
  /\ reader \in {"read", "deliver", "failing", "gone"}

(* No request.                                                               *)
LEMMA WaitInit == C!Init => WaitInv
  BY DEF C!Init, WaitInv

(* Two callers that are inside a call wait for different requests.            *)
LEMMA OwnRequests ==
  ASSUME ClientInv, NEW c \in Caller, NEW d \in Caller, callPc[c] # "idle", callPc[d] # "idle",
         id[c] = id[d]
  PROVE  c = d
<1>1. owner[id[c]] = <<c, last[c].no>> /\ owner[id[d]] = <<d, last[d].no>>
  BY InsideCall
<1> QED
  BY <1>1

(* A send fills the channel of its request and leaves the others alone.       *)
LEMMA SentFills ==
  ASSUME ClientTypes, NEW i \in Requests, NEW frame, C!Sent(i, frame)
  PROVE  /\ ch[i] = <<>> /\ ch'[i] # <<>>
         /\ \A j \in Requests : j # i => ch'[j] = ch[j]
<1>1. ch \in Seq(Seq(Frame)) /\ i \in 1 .. Len(ch)
  BY DEF ClientTypes, Requests
<1>2. ch' = [ch EXCEPT ![i] = <<frame>>] /\ ch[i] = <<>>
  BY DEF C!Sent
<1>3. ch'[i] = <<frame>> /\ \A j \in DOMAIN ch : j # i => ch'[j] = ch[j]
  BY <1>1, <1>2
<1>4. Requests \subseteq DOMAIN ch
  BY <1>1 DEF ClientTypes, Requests
<1> QED
  BY <1>2, <1>3, <1>4

(* A call that begins is in flight, with an empty channel of its own.         *)
LEMMA BeginWaits == ASSUME ClientInv, WaitInv, NEW c \in Caller, C!CallBegin(c) PROVE WaitInv'
<1>a. ClientTypes /\ CallInv
  BY DEF ClientInv
<1>b. /\ callPc[c] = "idle" /\ inflight' = inflight \cup {nextID} /\ ~closed
      /\ ch' = Append(ch, <<>>) /\ callPc' = [callPc EXCEPT ![c] = "write"]
      /\ id' = [id EXCEPT ![c] = nextID]
      /\ UNCHANGED <<closed, reader, pending>>
  BY DEF C!CallBegin, C!readVars
<1>c. nextID \in Nat \ {0} /\ nextID \notin Requests /\ inflight \subseteq Requests /\ pending \subseteq Requests
  BY <1>a DEF ClientTypes, Requests
<1>1. ch'[nextID] = <<>> /\ \A i \in Requests : ch'[i] = ch[i]
  <2>1. <<>> \in Seq(Frame) /\ ch \in Seq(Seq(Frame)) /\ Len(ch) = nextID - 1
    BY <1>a DEF ClientTypes
  <2> QED
    BY <2>1, <1>b, <1>c DEF Requests
<1>2. ASSUME NEW d \in Caller, callPc'[d] # "idle"
      PROVE  id'[d] \in inflight' \/ id'[d] \in pending' \/ ch'[id'[d]] # <<>>
  <2>1. CASE d = c
    BY <2>1, <1>a, <1>b DEF ClientTypes
  <2>2. CASE d # c
    <3>1. callPc[d] # "idle" /\ id'[d] = id[d]
      BY <1>2, <2>2, <1>a, <1>b DEF ClientTypes
    <3>2. id[d] \in Requests
      BY <3>1, InsideCall
    <3>3. ch'[id[d]] = ch[id[d]]
      BY <3>2, <1>1
    <3>4. id[d] \in inflight \/ id[d] \in pending \/ ch[id[d]] # <<>>
      BY <3>1 DEF WaitInv
    <3>5. inflight \subseteq inflight' /\ pending' = pending
      BY <1>b
    <3> QED
      BY <3>1, <3>3, <3>4, <3>5
  <2> QED
    BY <2>1, <2>2
<1>3. \A i \in inflight' \cup pending' : ch'[i] = <<>>
  BY <1>b, <1>c, <1>1 DEF WaitInv
<1> QED
  BY <1>b, <1>c, <1>2, <1>3 DEF WaitInv

(* A call that returns may leave its request with the reader.                 *)
LEMMA ReturnWaits ==
  ASSUME ClientInv, WaitInv, NEW c \in Caller, callPc[c] # "idle",
         C!WriteFailed(c) \/ C!Receive(c) \/ C!GiveUp(c)
  PROVE  WaitInv'
<1>a. ClientTypes
  BY DEF ClientInv
<1>b. /\ callPc' = [callPc EXCEPT ![c] = "idle"] /\ id' = [id EXCEPT ![c] = 0]
      /\ inflight' \subseteq inflight /\ \A i \in inflight : i # id[c] => i \in inflight'
      /\ ch' = ch \/ (ch[id[c]] # <<>> /\ ch' = [ch EXCEPT ![id[c]] = <<>>])
      /\ UNCHANGED <<closed, reader, pending>>
  BY DEF C!WriteFailed, C!Receive, C!GiveUp, C!Returns, C!Abandon, C!readVars
<1>c. id[c] \in Requests
  BY InsideCall
<1>1. \A i \in Requests : i # id[c] => ch'[i] = ch[i]
  <2>1. ch \in Seq(Seq(Frame)) /\ Requests \subseteq DOMAIN ch
    BY <1>a DEF ClientTypes, Requests
  <2>2. CASE ch' = ch
    BY <2>2
  <2>3. CASE ch' = [ch EXCEPT ![id[c]] = <<>>]
    BY <2>1, <2>3
  <2> QED
    BY <1>b, <2>2, <2>3
<1>2. \A i \in Requests : ch[i] = <<>> => ch'[i] = <<>>
  BY <1>b, <1>1
<1>3. ASSUME NEW d \in Caller, callPc'[d] # "idle"
      PROVE  id'[d] \in inflight' \/ id'[d] \in pending' \/ ch'[id'[d]] # <<>>
  <2>1. d # c /\ callPc[d] # "idle" /\ id'[d] = id[d]
    BY <1>3, <1>a, <1>b DEF ClientTypes
  <2>2. id[d] \in Requests /\ id[d] # id[c]
    BY <2>1, InsideCall, OwnRequests
  <2> QED
    BY <2>1, <2>2, <1>b, <1>1 DEF WaitInv
<1>4. \A i \in inflight' \cup pending' : ch'[i] = <<>>
  BY <1>a, <1>b, <1>2 DEF WaitInv, ClientTypes
<1> QED
  BY <1>b, <1>3, <1>4 DEF WaitInv

(* The reader takes over a request from the map, and keeps it until its send.  *)
LEMMA ReaderWaits ==
  ASSUME ClientInv, WaitInv, C!Read \/ C!Deliver \/ C!ReadFailed \/ C!FailNext
  PROVE  WaitInv'
<1>a. ClientTypes /\ AnswerInv
  BY DEF ClientInv
<1>b. UNCHANGED <<callPc, id>>
  BY DEF C!Read, C!Deliver, C!ReadFailed, C!FailNext, C!callVars
<1>c. \A c \in Caller : callPc[c] # "idle" => id[c] \in Requests
  BY InsideCall
<1>d. inflight \subseteq Requests /\ pending \subseteq Requests
  BY <1>a DEF ClientTypes
<1>1. CASE C!Read
  <2>1. /\ reader = "read" /\ UNCHANGED <<ch, closed>>
        /\ \/ UNCHANGED <<inflight, reader, pending>>
           \/ \E i \in inflight : inflight' = inflight \ {i} /\ reader' = "deliver" /\ pending' = {i}
    <3>1. /\ reader = "read" /\ in # <<>> /\ UNCHANGED <<ch, closed>>
          /\ inflight' = inflight \ {C!Routed(Head(in))}
          /\ \/ C!Routed(Head(in)) = 0 /\ UNCHANGED <<reader, pending>>
             \/ /\ C!Routed(Head(in)) # 0
                /\ reader' = "deliver" /\ pending' = {C!Routed(Head(in))}
      BY <1>1 DEF C!Read, C!readVars
    <3>2. 0 \notin inflight
      BY <1>d DEF Requests
    <3>3. C!Routed(Head(in)) = 0 \/ C!Routed(Head(in)) \in inflight
      BY DEF C!Routed
    <3> QED
      BY <3>1, <3>2, <3>3
  <2> QED
    BY <2>1, <1>b DEF WaitInv
<1>2. CASE C!ReadFailed
  <2>1. /\ reader = "read" /\ reader' = "failing" /\ pending' = inflight /\ inflight' = {}
        /\ closed' = TRUE /\ ch' = ch
    BY <1>2 DEF C!ReadFailed, C!Orphans
  <2> QED
    BY <2>1, <1>b DEF WaitInv
<1>3. ASSUME NEW i \in pending, NEW frame, C!Sent(i, frame), pending' = pending \ {i},
             UNCHANGED <<inflight, closed>>, reader' = reader \/ (reader = "deliver" /\ reader' = "read"),
             reader' = "read" => pending' = {}
      PROVE  WaitInv'
  <2>1. /\ ch'[i] # <<>> /\ \A j \in Requests : j # i => ch'[j] = ch[j]
    BY <1>a, <1>d, <1>3, SentFills
  <2>2. ASSUME NEW d \in Caller, callPc'[d] # "idle"
        PROVE  id'[d] \in inflight' \/ id'[d] \in pending' \/ ch'[id'[d]] # <<>>
    BY <2>1, <2>2, <1>b, <1>c, <1>3 DEF WaitInv
  <2>3. \A j \in inflight' \cup pending' : ch'[j] = <<>>
    BY <2>1, <1>d, <1>3 DEF WaitInv
  <2> QED
    BY <2>2, <2>3, <1>3 DEF WaitInv
<1>4. CASE C!Deliver
  <2>1. /\ reader = "deliver" /\ reader' = "read" /\ pending' = {} /\ UNCHANGED <<inflight, closed>>
    BY <1>4 DEF C!Deliver
  <2>2. PICK i \in pending : C!Sent(i, hand)
    BY <1>4 DEF C!Deliver
  <2>3. pending = {i}
    BY <1>a, <2>1, <2>2 DEF AnswerInv
  <2>4. pending' = pending \ {i}
    BY <2>1, <2>3
  <2> QED
    BY <1>3, <2>1, <2>2, <2>4
<1>5. CASE C!FailNext
  <2>1. reader = "failing" /\ UNCHANGED <<inflight, closed>>
    BY <1>5 DEF C!FailNext
  <2>2. ASSUME NEW i \in pending, C!Sent(i, C!NoFrame), pending' = pending \ {i}, reader' = reader
        PROVE  WaitInv'
    BY <1>3, <2>1, <2>2
  <2>3. ASSUME pending = {}, reader' = "gone", UNCHANGED <<pending, ch>>
        PROVE  WaitInv'
    BY <2>1, <2>3, <1>b DEF WaitInv
  <2> QED
    BY <1>5, <2>2, <2>3 DEF C!FailNext
<1> QED
  BY <1>1, <1>2, <1>4, <1>5

(* Every step of the client and its peer keeps what a waiting caller waits on. *)
LEMMA WaitStep == ClientInv /\ WaitInv /\ [C!Next]_(C!vars) => WaitInv'
<1> SUFFICES ASSUME ClientInv, WaitInv, [C!Next]_(C!vars)
             PROVE  WaitInv'
  OBVIOUS
<1>1. ASSUME NEW c \in Caller, C!WriteFailed(c) \/ C!Receive(c) \/ C!GiveUp(c)
      PROVE  WaitInv'
  <2>1. callPc[c] # "idle"
    BY <1>1 DEF C!WriteFailed, C!Receive, C!GiveUp
  <2> QED
    BY <1>1, <2>1, ReturnWaits
<1>2. ASSUME NEW c \in Caller, C!Write(c)
      PROVE  WaitInv'
  <2>1. /\ callPc[c] = "write" /\ callPc' = [callPc EXCEPT ![c] = "wait"]
        /\ UNCHANGED <<id, ch, inflight, pending, reader, closed>>
    BY <1>2 DEF C!Write, C!readVars, C!mapVars
  <2>2. \A d \in Caller : callPc'[d] # "idle" => callPc[d] # "idle"
    BY <2>1 DEF ClientInv, ClientTypes
  <2> QED
    BY <2>1, <2>2 DEF WaitInv
<1>3. ASSUME C!HandleRead \/ C!HandleReply \/ C!HandleExit \/ C!ConnDown \/ UNCHANGED C!vars
      PROVE  WaitInv'
  <2>1. UNCHANGED <<callPc, id, ch, inflight, pending, reader, closed>>
    BY <1>3 DEF C!HandleRead, C!HandleReply, C!HandleExit, C!ConnDown, C!vars, C!readVars, C!mapVars,
                C!callVars
  <2> QED
    BY <2>1 DEF WaitInv
<1> QED
  BY <1>1, <1>2, <1>3, BeginWaits, ReaderWaits DEF C!Next

(* readLoop's sends, of an answer or of the lost connection, find the channel  *)
(* empty: no late answer and no call that gave up can block the reader.        *)
ReaderNeverBlocks == \A i \in pending : ch[i] = <<>>

(* A call that waits is answered, or is one the reader is still to answer or   *)
(* to fail; when readLoop has returned, every call that waits has its answer.  *)
NoCallForgotten ==
  \A c \in Caller :
    callPc[c] = "wait" =>
      /\ ch[id[c]] = <<>> => id[c] \in inflight \cup pending
      /\ reader = "gone" => ch[id[c]] # <<>>

(* What safety has to say of LostConnectionFailsCalls: readLoop never blocks   *)
(* on a channel, and it returns only after it has answered everyone who waits. *)
THEOREM ReaderFailsEveryCall == C!Spec => [](ReaderNeverBlocks /\ NoCallForgotten)
<1>1. WaitInv => ReaderNeverBlocks
  BY DEF WaitInv, ReaderNeverBlocks
<1>2. ClientInv /\ WaitInv => NoCallForgotten
  BY DEF WaitInv, NoCallForgotten
<1> QED
  BY <1>1, <1>2, ClientInit, WaitInit, ClientStep, WaitStep, PTL DEF C!Spec

-----------------------------------------------------------------------------
(* The sessions of the plugins                                              *)

(* What is held open is what Close closes, or is kept alive; nothing is open   *)
(* after a failed Open, nothing that Close closes after the once, and nobody  *)
(* closes a session before it exists.                                        *)
SessionInv ==
  /\ kind \in P!Kinds
  /\ opening \in {"run", "failed", "ok"} /\ once \in BOOLEAN /\ wrapped \in BOOLEAN
  /\ step \in Nat
  /\ held \subseteq P!Closes \cup P!KeptAlive
  /\ P!Closes \cap P!KeptAlive = {}
  /\ opening # "ok" =>
       runner = "idle" /\ closer = "idle" /\ start = "idle" /\ running = {} /\ ~once /\ ~wrapped
  /\ opening = "failed" => held = {}
  /\ once => held \subseteq P!KeptAlive
  /\ wrapped => once
  /\ runner \in {"close", "ended"} => wrapped

(* Each step of an Open leaves open at most what the session's Close closes.   *)
LEMMA StepsAreClosed ==
  ASSUME kind \in P!Kinds, NEW n \in Nat, n < Len(P!Steps), NEW gained \in P!Steps[n + 1]
  PROVE  gained \subseteq P!Closes
<1> USE DEF P!Steps, P!Closes
<1>1. CASE kind = "ssh"
  <2>1. P!Steps = P!SshOpen /\ P!Closes = P!SshClose
    BY <1>1
  <2> HIDE DEF P!Steps, P!Closes
  <2> QED
    BY <2>1 DEF P!SshOpen, P!Target, P!BuildAuth, P!AgentSocket, P!BuildHostKeys,
       P!DialClient, P!NewChannel, P!RequestShell, P!SshClose
<1>2. CASE kind = "sftp"
  <2> DEFINE Gain == {{}, {"agent"}, {"client"}, {"channel"}}
  <2>1. /\ P!SshDial \in Seq(SUBSET Gain) /\ <<P!NewChannel>> \in Seq(SUBSET Gain)
    BY DEF P!SshDial, P!Target, P!BuildAuth, P!AgentSocket, P!BuildHostKeys, P!DialClient, P!NewChannel
  <2>2. P!SftpOpen \in Seq(SUBSET Gain)
    BY <2>1, ConcatProperties DEF P!SftpOpen
  <2>3. P!Steps = P!SftpOpen /\ P!Closes = P!SftpClose
    BY <1>2
  <2> HIDE DEF P!Steps, P!Closes, Gain
  <2>6. P!Steps \in Seq(SUBSET Gain) /\ n + 1 \in 1 .. Len(P!Steps)
    BY <2>2, <2>3
  <2>4. P!Steps[n + 1] \in SUBSET Gain
    BY <2>6
  <2>5. gained \in Gain
    BY <2>4
  <2> QED
    BY <2>3, <2>5 DEF Gain, P!SftpClose
<1>3. CASE kind = "telnet"
  <2>1. P!Steps = P!TelnetOpen /\ P!Closes = P!TelnetClose
    BY <1>3
  <2> HIDE DEF P!Steps, P!Closes
  <2> QED
    BY <2>1 DEF P!TelnetOpen, P!ResolveTelnet, P!DialTCP, P!TelnetClose
<1>4. CASE kind = "rlogin"
  <2>1. P!Steps = P!RloginOpen /\ P!Closes = P!RloginClose
    BY <1>4
  <2> HIDE DEF P!Steps, P!Closes
  <2> QED
    BY <2>1 DEF P!RloginOpen, P!ResolveRlogin, P!BuildHandshake, P!DialTCP,
       P!Handshake, P!RloginClose
<1>5. CASE kind = "rawsocket"
  <2>1. P!Steps = P!RawsocketOpen /\ P!Closes = P!RawsocketClose
    BY <1>5
  <2> HIDE DEF P!Steps, P!Closes
  <2> QED
    BY <2>1 DEF P!RawsocketOpen, P!Target, P!DialTCP, P!RawsocketClose
<1>6. CASE kind = "serial"
  <2>1. P!Steps = P!SerialOpen /\ P!Closes = P!SerialClose
    BY <1>6
  <2> HIDE DEF P!Steps, P!Closes
  <2> QED
    BY <2>1 DEF P!SerialOpen, P!Target, P!OpenPort, P!SerialClose
<1>7. CASE kind = "http"
  <2>1. P!Steps = P!HttpOpen /\ P!Closes = {}
    BY <1>7
  <2> HIDE DEF P!Steps, P!Closes
  <2> QED
    BY <2>1 DEF P!HttpOpen, P!Target
<1>8. CASE kind = "rdp"
  <2>1. P!Steps = P!RdpOpen /\ P!Closes = {}
    BY <1>8
  <2> HIDE DEF P!Steps, P!Closes
  <2> QED
    BY <2>1 DEF P!RdpOpen, P!Target
<1>9. CASE kind = "vnc"
  <2>1. P!Steps = P!VncOpen /\ P!Closes = {}
    BY <1>9
  <2> HIDE DEF P!Steps, P!Closes
  <2> QED
    BY <2>1 DEF P!VncOpen, P!Target
<1>10. CASE kind = "tn5250"
  <2>1. P!Steps = P!Tn5250Open /\ P!Closes = {}
    BY <1>10
  <2> HIDE DEF P!Steps, P!Closes
  <2> QED
    BY <2>1 DEF P!Tn5250Open, P!Target
<1>11. CASE kind = "mosh"
  <2>1. P!Steps = P!MoshOpen /\ P!Closes = {}
    BY <1>11
  <2> HIDE DEF P!Steps, P!Closes
  <2> QED
    BY <2>1 DEF P!MoshOpen, P!Target
<1>12. CASE kind = "powershell"
  <2>1. P!Steps = P!PowershellOpen /\ P!Closes = {}
    BY <1>12
  <2> HIDE DEF P!Steps, P!Closes
  <2> QED
    BY <2>1 DEF P!PowershellOpen, P!Unsupported
<1> QED
  BY <1>1, <1>2, <1>3, <1>4, <1>5, <1>6, <1>7, <1>8, <1>9, <1>10, <1>11, <1>12 DEF P!Kinds, P!Refusing

(* Nothing is open.                                                          *)
LEMMA SessionInit == P!Init => SessionInv
<1> SUFFICES ASSUME P!Init PROVE SessionInv
  OBVIOUS
<1>1. kind \in P!Kinds /\ held = {}
  BY SessionAssumption DEF P!Init
<1>3. P!Closes \cap P!KeptAlive = {}
  BY <1>1 DEF P!Closes, P!KeptAlive
<1>2. once \in BOOLEAN /\ wrapped \in BOOLEAN /\ ~once /\ ~wrapped
  BY DEF P!Init
<1> QED
  BY <1>1, <1>2, <1>3 DEF P!Init, SessionInv

(* Every step keeps the invariant: the steps of Open gain only what is closed, *)
(* and whoever comes first to the once releases it.                           *)
LEMMA SessionStep == SessionInv /\ P!Next => SessionInv'
<1> SUFFICES ASSUME SessionInv, P!Next
             PROVE  SessionInv'
  OBVIOUS
<1>a. SessionInv
  OBVIOUS
<1>b. kind' = kind => P!Closes' = P!Closes /\ P!KeptAlive' = P!KeptAlive
  BY DEF P!Closes, P!KeptAlive
<1> USE DEF SessionInv, P!openVars, P!mgrVars, P!envVars
<1>1. CASE P!OpenStep
  <2>1. opening = "run" /\ step < Len(P!Steps) /\ step' = step + 1
        /\ UNCHANGED <<kind, opening, start, running, once, wrapped, runner, closer>>
    BY <1>1 DEF P!OpenStep
  <2>2. PICK gained \in P!Steps[step + 1] : held' = held \union gained
    BY <1>1 DEF P!OpenStep
  <2>3. gained \subseteq P!Closes
    BY <1>a, <2>1, <2>2, StepsAreClosed
  <2> QED
    BY <1>a, <1>b, <2>1, <2>2, <2>3
<1>2. CASE P!OpenFail
  BY <1>2, <1>a, <1>b DEF P!OpenFail, P!Released
<1>3. CASE P!OpenOk
  BY <1>3, <1>a, <1>b DEF P!OpenOk
<1>4. CASE P!StartBegin
  BY <1>4, <1>a, <1>b DEF P!StartBegin
<1>5. CASE P!LoginDone
  BY <1>5, <1>a, <1>b DEF P!LoginDone
<1>6. CASE P!LoginFailed
  BY <1>6, <1>a, <1>b DEF P!LoginFailed
<1>7. CASE P!StartClose
  BY <1>7, <1>a, <1>b DEF P!StartClose, P!CloseInner
<1>8. CASE P!StartReturn
  BY <1>8, <1>a, <1>b DEF P!StartReturn
<1>9. ASSUME NEW g \in running, P!GoroutineEnds(g)
      PROVE  SessionInv'
  BY <1>9, <1>a, <1>b DEF P!GoroutineEnds
<1>10. CASE P!WatchFires
  BY <1>10, <1>a, <1>b DEF P!WatchFires, P!CloseInner
<1>11. CASE P!RunClose
  BY <1>11, <1>a, <1>b DEF P!RunClose, P!CloseWrapped, P!CloseInner
<1>12. CASE P!RunEnd
  BY <1>12, <1>a, <1>b DEF P!RunEnd
<1>13. CASE P!CloseBegin
  BY <1>13, <1>a, <1>b DEF P!CloseBegin
<1>14. CASE P!CloseCancel
  BY <1>14, <1>a, <1>b DEF P!CloseCancel
<1>15. CASE P!CloseSess
  BY <1>15, <1>a, <1>b DEF P!CloseSess, P!CloseWrapped, P!CloseInner
<1>16. CASE P!CloseStdin
  BY <1>16, <1>a, <1>b DEF P!CloseStdin
<1>17. CASE P!CloseReturn
  BY <1>17, <1>a, <1>b DEF P!CloseReturn
<1>18. CASE P!RemoteDown
  BY <1>18, <1>a, <1>b DEF P!RemoteDown
<1>19. CASE P!DropIdle
  BY <1>19, <1>a, <1>b DEF P!DropIdle
<1> QED
  BY <1>1, <1>2, <1>3, <1>4, <1>5, <1>6, <1>7, <1>8, <1>9, <1>10, <1>11, <1>12,
     <1>13, <1>14, <1>15, <1>16, <1>17, <1>18, <1>19 DEF P!Next, P!Opening, P!Starting,
     P!Closing, P!Goroutine

(* A session holds nothing, but for an idle connection of http, once the run  *)
(* goroutine is through with it, and a failed Open leaves nothing open,        *)
(* whichever caller of Close comes first.                                     *)
THEOREM SessionReleases == P!Spec => []P!ResourcesReleased
<1>1. SessionInv /\ UNCHANGED P!vars => SessionInv'
  BY DEF SessionInv, P!vars, P!Closes, P!KeptAlive
<1>2. SessionInv => P!ResourcesReleased
  BY DEF SessionInv, P!ResourcesReleased
<1> QED
  BY <1>1, <1>2, SessionInit, SessionStep, PTL DEF P!Spec

-----------------------------------------------------------------------------
(* The host keys of the ssh plugin                                          *)

(* The opens that may still add a key: they found none in the file.           *)
Pending ==
  {d \in Dialer : /\ at[d] \in {"dial", "check", "open", "append"}
                  /\ policy[d] # "off" /\ base[d] = {}}

(* The file keeps what an open has read, one key is presented, and only who    *)
(* found no key appends.                                                      *)
ReadInv ==
  /\ \A d \in Dialer :
       /\ base[d] \subseteq file
       /\ key[d] = {} \/ \E k \in HostKey : key[d] = {k}
       /\ at[d] = "check" => key[d] # {}
       /\ at[d] \in {"open", "append"} => base[d] = {} /\ policy[d] # "off"
       /\ at[d] = "accepted" /\ policy[d] # "off" =>
            key[d] \subseteq file /\ (base[d] = {} \/ key[d] \subseteq base[d])

(* Once the file has a key, nobody joins those who may add one.                *)
RoomInv ==
  /\ IsFiniteSet(file)
  /\ file = {} \/ Cardinality(file) + Cardinality(Pending) <= Cardinality(Dialer)

KeysInv == N!TypeOK /\ ReadInv /\ RoomInv

(* Those who may add a key are finitely many.                                  *)
LEMMA PendingFinite ==
  /\ IsFiniteSet(Pending) /\ Cardinality(Pending) \in Nat
  /\ Cardinality(Dialer) \in Nat \ {0} /\ Cardinality(Pending) <= Cardinality(Dialer)
<1>1. Pending \in SUBSET Dialer
  BY DEF Pending
<1>2. IsFiniteSet(Pending) /\ Cardinality(Pending) <= Cardinality(Dialer)
  BY <1>1, DialerAssumption, FS_Subset
<1>3. Cardinality(Pending) \in Nat /\ Cardinality(Dialer) \in Nat
  BY <1>2, DialerAssumption, FS_CardinalityType
<1>4. Cardinality(Dialer) # 0
  BY DialerAssumption, FS_EmptySet
<1> QED
  BY <1>2, <1>3, <1>4

(* One key at most is in the file, and nobody has begun.                       *)
LEMMA KeysInit == N!Init => KeysInv
<1> SUFFICES ASSUME N!Init PROVE KeysInv
  OBVIOUS
<1>1. N!TypeOK
  BY DEF N!Init, N!TypeOK
<1>2. ReadInv
  BY DEF N!Init, ReadInv
<1>3. Pending = {}
  BY DEF N!Init, Pending
<1>4. ASSUME file = {} PROVE RoomInv
  BY <1>4, FS_EmptySet DEF RoomInv
<1>5. ASSUME NEW k \in HostKey, file = {k} PROVE RoomInv
  <2>1. Cardinality(Pending) = 0 /\ Cardinality(file) = 1 /\ IsFiniteSet(file)
    BY <1>3, <1>5, FS_EmptySet, FS_Singleton
  <2> QED
    BY <2>1, PendingFinite DEF RoomInv
<1>6. RoomInv
  BY <1>4, <1>5 DEF N!Init
<1> QED
  BY <1>1, <1>2, <1>6 DEF KeysInv

(* Steps that leave the file alone and let nobody join.                        *)
LEMMA RoomStays ==
  ASSUME RoomInv, file' = file, file = {} \/ Pending' \subseteq Pending
  PROVE  RoomInv'
<1>1. CASE file = {}
  BY <1>1 DEF RoomInv
<1>2. CASE file # {}
  <2>1. Pending' \in SUBSET Pending
    BY <1>2
  <2>2. Cardinality(Pending') <= Cardinality(Pending) /\ IsFiniteSet(Pending')
    BY <2>1, PendingFinite, FS_Subset
  <2>3. Cardinality(Pending') \in Nat /\ Cardinality(Pending) \in Nat /\ Cardinality(file) \in Nat
    BY <2>2, PendingFinite, FS_CardinalityType DEF RoomInv
  <2> QED
    BY <1>2, <2>2, <2>3, PendingFinite DEF RoomInv
<1> QED
  BY <1>1, <1>2

(* An open appends its key: one key more, one open less that may add one.      *)
LEMMA AppendKeepsRoom ==
  ASSUME KeysInv, NEW d \in Dialer, N!AppendKnownHost(d)
  PROVE  RoomInv'
<1>1. /\ at[d] = "append" /\ at' = [at EXCEPT ![d] = "accepted"] /\ file' = file \union key[d]
      /\ UNCHANGED <<policy, base, key>>
  BY DEF N!AppendKnownHost, N!Goto
<1>2. d \in Pending /\ Pending' = Pending \ {d}
  BY <1>1 DEF KeysInv, ReadInv, Pending, N!TypeOK
<1>3. Cardinality(Pending') = Cardinality(Pending) - 1
  BY <1>2, PendingFinite, FS_RemoveElement
<1>4. IsFiniteSet(file) /\ Cardinality(file) \in Nat
  BY FS_CardinalityType DEF KeysInv, RoomInv
<1>5. CASE key[d] = {}
  BY <1>1, <1>3, <1>4, <1>5, PendingFinite DEF KeysInv, RoomInv
<1>6. CASE \E k \in HostKey : key[d] = {k}
  <2>1. PICK k \in HostKey : key[d] = {k}
    BY <1>6
  <2>2. file' = file \union {k}
    BY <1>1, <2>1
  <2>3. IsFiniteSet(file') /\ Cardinality(file') <= Cardinality(file) + 1 /\ Cardinality(file') \in Nat
    <3>1. IsFiniteSet(file') /\ Cardinality(file') = IF k \in file THEN Cardinality(file) ELSE Cardinality(file) + 1
      BY <1>4, <2>2, FS_AddElement
    <3> QED
      BY <1>4, <3>1
  <2>4. file = {} => Cardinality(file) = 0
    BY FS_EmptySet
  <2> QED
    BY <1>3, <1>4, <2>3, <2>4, PendingFinite DEF KeysInv, RoomInv
<1> QED
  BY <1>5, <1>6 DEF KeysInv, ReadInv

(* Every step of an open keeps the invariant.                                  *)
LEMMA KeysStep == KeysInv /\ N!Next => KeysInv'
<1> SUFFICES ASSUME KeysInv, NEW d \in Dialer,
                    \/ N!BuildCallback(d) \/ N!BuildFailed(d) \/ N!Present(d) \/ N!Check(d)
                    \/ N!LockFile(d) \/ N!AppendKnownHost(d) \/ N!AppendFailed(d) \/ N!Again(d)
             PROVE  KeysInv'
  BY DEF N!Next
<1>a. N!TypeOK /\ ReadInv /\ RoomInv
  BY DEF KeysInv
<1>1. N!TypeOK'
  BY <1>a DEF N!TypeOK, N!BuildCallback, N!BuildFailed, N!Present, N!Check, N!LockFile,
     N!AppendKnownHost, N!AppendFailed, N!Again, N!Goto, N!Verdict
<1>2. ReadInv'
  <2>1. CASE N!BuildCallback(d)
    BY <1>a, <2>1 DEF ReadInv, N!TypeOK, N!BuildCallback, N!Goto
  <2>2. CASE N!BuildFailed(d)
    BY <1>a, <2>2 DEF ReadInv, N!TypeOK, N!BuildFailed, N!Goto
  <2>3. CASE N!Present(d)
    BY <1>a, <2>3 DEF ReadInv, N!TypeOK, N!Present, N!Goto
  <2>4. CASE N!Check(d)
    BY <1>a, <2>4 DEF ReadInv, N!TypeOK, N!Check, N!Goto, N!Verdict
  <2>5. CASE N!LockFile(d)
    BY <1>a, <2>5 DEF ReadInv, N!TypeOK, N!LockFile, N!Goto
  <2>6. CASE N!AppendKnownHost(d)
    BY <1>a, <2>6 DEF ReadInv, N!TypeOK, N!AppendKnownHost, N!Goto
  <2>7. CASE N!AppendFailed(d)
    BY <1>a, <2>7 DEF ReadInv, N!TypeOK, N!AppendFailed, N!Goto
  <2>8. CASE N!Again(d)
    BY <1>a, <2>8 DEF ReadInv, N!TypeOK, N!Again, N!Goto
  <2> QED
    BY <2>1, <2>2, <2>3, <2>4, <2>5, <2>6, <2>7, <2>8
<1>3. RoomInv'
  <2>1. CASE N!BuildCallback(d)
    BY <1>a, <2>1, RoomStays DEF Pending, N!TypeOK, N!BuildCallback, N!Goto
  <2>2. CASE N!BuildFailed(d)
    BY <1>a, <2>2, RoomStays DEF Pending, N!TypeOK, N!BuildFailed, N!Goto
  <2>3. CASE N!Present(d)
    BY <1>a, <2>3, RoomStays DEF Pending, N!TypeOK, N!Present, N!Goto
  <2>4. CASE N!Check(d)
    BY <1>a, <2>4, RoomStays DEF Pending, N!TypeOK, N!Check, N!Goto, N!Verdict
  <2>5. CASE N!LockFile(d)
    BY <1>a, <2>5, RoomStays DEF Pending, N!TypeOK, N!LockFile, N!Goto
  <2>6. CASE N!AppendKnownHost(d)
    BY <2>6, AppendKeepsRoom
  <2>7. CASE N!AppendFailed(d)
    BY <1>a, <2>7, RoomStays DEF Pending, N!TypeOK, N!AppendFailed, N!Goto
  <2>8. CASE N!Again(d)
    BY <1>a, <2>8, RoomStays DEF Pending, N!TypeOK, N!Again, N!Goto
  <2> QED
    BY <2>1, <2>2, <2>3, <2>4, <2>5, <2>6, <2>7, <2>8
<1> QED
  BY <1>1, <1>2, <1>3 DEF KeysInv

(* The invariant bounds the keys in the file.                                  *)
LEMMA KeysTrusted == KeysInv => N!HostKeysTrusted
<1> SUFFICES ASSUME KeysInv PROVE N!HostKeysTrusted
  OBVIOUS
<1>1. Cardinality(file) \in Nat /\ (file = {} => Cardinality(file) = 0)
  BY FS_EmptySet, FS_CardinalityType DEF KeysInv, RoomInv
<1>2. Cardinality(file) <= Cardinality(Dialer)
  BY <1>1, PendingFinite DEF KeysInv, RoomInv
<1>3. \A d \in Dialer : at[d] = "accepted" /\ policy[d] # "off" =>
        key[d] \subseteq file /\ (base[d] = {} \/ key[d] \subseteq base[d])
  BY DEF KeysInv, ReadInv
<1>4. N!Cardinality(file) = Cardinality(file) /\ N!Cardinality(Dialer) = Cardinality(Dialer)
  BY DEF N!Cardinality, Cardinality, N!IsFiniteSet, IsFiniteSet
<1> QED
  BY <1>2, <1>3, <1>4 DEF N!HostKeysTrusted

(* Nothing happens.                                                          *)
LEMMA KeysStutter == KeysInv /\ UNCHANGED N!vars => KeysInv'
<1> SUFFICES ASSUME KeysInv, UNCHANGED N!vars PROVE KeysInv'
  OBVIOUS
<1>1. UNCHANGED <<at, policy, base, key, file, locked>>
  BY DEF N!vars
<1>2. N!TypeOK' /\ ReadInv'
  BY <1>1 DEF KeysInv, N!TypeOK, ReadInv
<1>3. RoomInv'
  BY <1>1, RoomStays DEF KeysInv, Pending
<1> QED
  BY <1>2, <1>3 DEF KeysInv

(* The key an open accepts is in the file, and there are no more keys in it    *)
(* than opens that run at a time.                                             *)
THEOREM OpensTrustKeys == N!Spec => []N!HostKeysTrusted
  BY KeysInit, KeysStep, KeysStutter, KeysTrusted, PTL DEF N!Spec

-----------------------------------------------------------------------------
(* The copies of an SFTP session                                            *)

Sides == {"remote", "local"}
AnyNode == [kind : {"dir", "none", "file"}, data : Seq(Piece)]
Destination == fs[F!Other(copy.from)][copy.dst]

SftpTypes ==
  /\ fs \in [Sides -> [Path -> AnyNode]]
  /\ copy # F!NoCopy => /\ copy \in [from : Sides, src : Path, dst : Path, at : Nat]
                        /\ report = F!NoCopy

(* Of a copy that is under way the destination holds the pieces read so far.   *)
CopyInv ==
  copy # F!NoCopy /\ F!Source \in F!File =>
    /\ Destination.kind = "file" /\ Len(Destination.data) = copy.at
    /\ copy.at <= Len(F!Source.data)
    /\ \A i \in 1 .. copy.at : Destination.data[i] = F!Source.data[i]

SftpInv == SftpTypes /\ CopyInv /\ F!ReportedCopiesAreWhole

(* The other side is another side.                                             *)
LEMMA OtherSide ==
  ASSUME NEW side \in Sides PROVE F!Other(side) \in Sides /\ F!Other(side) # side
  BY DEF Sides, F!Other

(* A file is a node with pieces.                                              *)
LEMMA FileIsNode ==
  ASSUME NEW f \in F!File
  PROVE  f = [kind |-> "file", data |-> f.data] /\ f.data \in Seq(Piece) /\ f \in AnyNode
<1>1. PICK d \in UNION {[1 .. n -> Piece] : n \in 0 .. MaxPieces} : f = [kind |-> "file", data |-> d]
  BY DEF F!File, F!Node
<1>2. PICK n \in 0 .. MaxPieces : d \in [1 .. n -> Piece]
  BY <1>1
<1>3. n \in Nat
  BY <1>2, SftpAssumption
<1>4. d \in Seq(Piece)
  BY <1>2, <1>3
<1> QED
  BY <1>1, <1>4 DEF AnyNode

(* Directories, absent files and empty files are nodes.                        *)
LEMMA PlainNodes == F!Dir \in AnyNode /\ F!NoFile \in AnyNode /\ F!Node("file", <<>>) \in AnyNode
<1>1. <<>> \in Seq(Piece)
  OBVIOUS
<1> QED
  BY <1>1 DEF F!Dir, F!NoFile, F!Node, AnyNode

(* Both sides have what they have; nothing is copied.                          *)
LEMMA SftpInit == F!Init => SftpInv
<1> SUFFICES ASSUME F!Init PROVE SftpInv
  OBVIOUS
<1>1. {F!Dir, F!NoFile} \cup F!File \subseteq AnyNode
  BY PlainNodes, FileIsNode
<1>2. fs \in [Sides -> [Path -> AnyNode]]
  BY <1>1 DEF F!Init, Sides
<1>3. copy = F!NoCopy /\ report = F!NoCopy
  BY DEF F!Init
<1> QED
  BY <1>2, <1>3 DEF SftpInv, SftpTypes, CopyInv, F!ReportedCopiesAreWhole

(* A line that is no copy leaves no copy and no report behind.                 *)
LEMMA LineKeeps ==
  ASSUME SftpInv, F!Takes, UNCHANGED copy, fs' \in [Sides -> [Path -> AnyNode]]
  PROVE  SftpInv'
  BY DEF SftpInv, SftpTypes, CopyInv, F!ReportedCopiesAreWhole, F!Takes

(* A command of one request changes nodes of the remote side.                  *)
LEMMA RequestTypes ==
  ASSUME SftpInv, F!Request
  PROVE  fs' \in [Sides -> [Path -> AnyNode]]
<1>a. fs \in [Sides -> [Path -> AnyNode]] /\ "remote" \in Sides
  BY DEF SftpInv, SftpTypes, Sides
<1>1. ASSUME NEW p \in Path, F!mkdirCmd(p) \/ F!rmdirCmd(p) \/ F!rmCmd(p)
      PROVE  fs' \in [Sides -> [Path -> AnyNode]]
  BY <1>1, <1>a, PlainNodes DEF F!mkdirCmd, F!rmdirCmd, F!rmCmd, F!Becomes
<1>2. ASSUME NEW p \in Path, NEW q \in Path, F!mvCmd(p, q)
      PROVE  fs' \in [Sides -> [Path -> AnyNode]]
  BY <1>2, <1>a, PlainNodes DEF F!mvCmd
<1> QED
  BY <1>1, <1>2, <1>a DEF F!Request

(* A transfer begins: the destination is empty.                               *)
LEMMA TransferKeeps ==
  ASSUME SftpInv, NEW side \in Sides, NEW p \in Path, NEW q \in Path, F!Transfer(side, p, q)
  PROVE  SftpInv'
<1>1. /\ fs' = [fs EXCEPT ![F!Other(side)][q] = F!Node("file", <<>>)]
      /\ copy' = [from |-> side, src |-> p, dst |-> q, at |-> 0] /\ report' = F!NoCopy
  BY DEF F!Transfer, F!Takes
<1>2. copy' \in [from : Sides, src : Path, dst : Path, at : Nat]
  BY <1>1
<1>3. fs' \in [Sides -> [Path -> AnyNode]] /\ fs'[F!Other(side)][q] = F!Node("file", <<>>)
  BY <1>1, OtherSide, PlainNodes DEF SftpInv, SftpTypes
<1>4. Destination' = F!Node("file", <<>>) /\ copy'.at = 0
  BY <1>1, <1>3 DEF Destination, F!Other
<1>5. F!Source' \in AnyNode
  BY <1>1, <1>3 DEF F!Source
<1>6. Destination'.kind = "file" /\ Len(Destination'.data) = 0 /\ Len(F!Source'.data) \in Nat
  BY <1>4, <1>5 DEF F!Node, AnyNode
<1>7. CopyInv'
  BY <1>4, <1>6 DEF CopyInv
<1> QED
  BY <1>1, <1>2, <1>3, <1>7 DEF SftpInv, SftpTypes, F!ReportedCopiesAreWhole

(* One piece more is in the destination, and the source is as it was.          *)
LEMMA PieceKeeps == ASSUME SftpInv, F!CopyPiece PROVE SftpInv'
<1>1. /\ copy # F!NoCopy /\ F!Source \in F!File /\ copy.at < Len(F!Source.data)
      /\ fs' = [fs EXCEPT ![F!Other(copy.from)][copy.dst].data =
                            Append(@, F!Source.data[copy.at + 1])]
      /\ copy' = [copy EXCEPT !.at = @ + 1] /\ report' = report
  BY DEF F!CopyPiece
<1>2. /\ copy \in [from : Sides, src : Path, dst : Path, at : Nat] /\ report = F!NoCopy
      /\ fs \in [Sides -> [Path -> AnyNode]]
  BY <1>1 DEF SftpInv, SftpTypes
<1>3. /\ copy' \in [from : Sides, src : Path, dst : Path, at : Nat]
      /\ copy'.from = copy.from /\ copy'.src = copy.src /\ copy'.dst = copy.dst
      /\ copy'.at = copy.at + 1
  BY <1>1, <1>2
<1>4. /\ copy.from \in Sides /\ copy.src \in Path /\ copy.dst \in Path /\ copy.at \in Nat
      /\ F!Other(copy.from) \in Sides /\ F!Other(copy.from) # copy.from
  BY <1>2, OtherSide
<1> DEFINE more == Append(Destination.data, F!Source.data[copy.at + 1])
<1>5. Destination \in AnyNode /\ Destination.data \in Seq(Piece)
  BY <1>2, <1>4 DEF Destination, AnyNode
<1>6. F!Source.data \in Seq(Piece) /\ F!Source.data[copy.at + 1] \in Piece
  BY <1>1, <1>4, FileIsNode
<1>7. /\ more \in Seq(Piece) /\ Len(more) = Len(Destination.data) + 1
      /\ more[Len(more)] = F!Source.data[copy.at + 1]
      /\ \A i \in 1 .. Len(Destination.data) : more[i] = Destination.data[i]
  BY <1>5, <1>6
<1> HIDE DEF more
<1>8. fs' = [fs EXCEPT ![F!Other(copy.from)] =
                 [@ EXCEPT ![copy.dst] = [Destination EXCEPT !.data = more]]]
  BY <1>1, <1>2, <1>4 DEF Destination, more
<1>9. [Destination EXCEPT !.data = more] \in AnyNode /\ [Destination EXCEPT !.data = more].data = more
      /\ [Destination EXCEPT !.data = more].kind = Destination.kind
  BY <1>5, <1>7 DEF AnyNode
<1>10. /\ fs' \in [Sides -> [Path -> AnyNode]]
       /\ fs'[F!Other(copy.from)][copy.dst] = [Destination EXCEPT !.data = more]
       /\ fs'[copy.from] = fs[copy.from]
  BY <1>2, <1>4, <1>8, <1>9
<1>11. F!Source' = F!Source /\ Destination' = [Destination EXCEPT !.data = more]
  BY <1>3, <1>10 DEF F!Source, Destination, F!Other
<1>12. /\ Destination.kind = "file" /\ Len(Destination.data) = copy.at
       /\ \A i \in 1 .. copy.at : Destination.data[i] = F!Source.data[i]
  BY <1>1 DEF SftpInv, CopyInv
<1>13. CopyInv'
  <2>1. Destination'.kind = "file" /\ Destination'.data = more
    BY <1>9, <1>11, <1>12
  <2>2. Len(more) = copy'.at /\ copy'.at <= Len(F!Source.data)
    <3>1. Len(F!Source.data) \in Nat
      BY <1>6
    <3> QED
      BY <1>1, <1>3, <1>4, <1>7, <1>12, <3>1
  <2>3. \A i \in 1 .. copy'.at : more[i] = F!Source.data[i]
    <3>1. more[copy.at + 1] = F!Source.data[copy.at + 1]
      BY <1>3, <1>7, <2>2
    <3>2. \A i \in 1 .. copy.at : more[i] = F!Source.data[i]
      BY <1>7, <1>12
    <3>3. \A i \in 1 .. copy'.at : i \in 1 .. copy.at \/ i = copy.at + 1
      BY <1>3, <1>4
    <3> QED
      BY <3>1, <3>2, <3>3
  <2> QED
    BY <1>11, <2>1, <2>2, <2>3 DEF CopyInv
<1> QED
  BY <1>1, <1>2, <1>3, <1>10, <1>13 DEF SftpInv, SftpTypes, F!ReportedCopiesAreWhole

(* At the end of the source the destination is the source.                     *)
LEMMA DoneKeeps == ASSUME SftpInv, F!CopyDone PROVE SftpInv'
<1>1. /\ copy # F!NoCopy /\ F!Source \in F!File /\ copy.at = Len(F!Source.data)
      /\ report' = copy /\ copy' = F!NoCopy /\ fs' = fs
  BY DEF F!CopyDone
<1>2. /\ copy \in [from : Sides, src : Path, dst : Path, at : Nat]
      /\ fs \in [Sides -> [Path -> AnyNode]]
  BY <1>1 DEF SftpInv, SftpTypes
<1>3. Destination \in AnyNode
  BY <1>2, OtherSide DEF Destination
<1>4. Destination = [kind |-> Destination.kind, data |-> Destination.data] /\ Destination.data \in Seq(Piece)
  BY <1>3 DEF AnyNode
<1>5. F!Source = [kind |-> "file", data |-> F!Source.data] /\ F!Source.data \in Seq(Piece)
  BY <1>1, FileIsNode
<1>6. /\ Destination.kind = "file" /\ Len(Destination.data) = Len(F!Source.data)
      /\ \A i \in 1 .. Len(F!Source.data) : Destination.data[i] = F!Source.data[i]
  BY <1>1 DEF SftpInv, CopyInv
<1>7. Destination.data = F!Source.data
  BY <1>4, <1>5, <1>6, SeqEqual
<1>8. Destination = F!Source
  BY <1>4, <1>5, <1>6, <1>7
<1>9. F!ReportedCopiesAreWhole'
  BY <1>1, <1>8 DEF F!ReportedCopiesAreWhole, Destination, F!Source, F!Other
<1> QED
  BY <1>1, <1>2, <1>9 DEF SftpInv, SftpTypes, CopyInv

(* Nothing of the copy and of the files changes, or the copy is given up.      *)
LEMMA QuietKeeps ==
  ASSUME SftpInv, UNCHANGED <<fs, report>>, copy' = copy \/ copy' = F!NoCopy
  PROVE  SftpInv'
<1>1. CASE copy' = copy
  BY <1>1 DEF SftpInv, SftpTypes, CopyInv, F!ReportedCopiesAreWhole, F!Source, Destination, F!Other
<1>2. CASE copy' = F!NoCopy
  BY <1>2 DEF SftpInv, SftpTypes, CopyInv, F!ReportedCopiesAreWhole, F!Other
<1> QED
  BY <1>1, <1>2

(* Every step of the session keeps the invariant.                             *)
LEMMA SftpStep == SftpInv /\ [F!Next]_(F!vars) => SftpInv'
<1> SUFFICES ASSUME SftpInv, [F!Next]_(F!vars) PROVE SftpInv'
  OBVIOUS
<1>1. ASSUME NEW side \in Sides, NEW p \in Path, F!cdCmd(side, p) PROVE SftpInv'
  BY <1>1, LineKeeps DEF F!cdCmd, SftpInv, SftpTypes
<1>2. CASE F!Request
  BY <1>2, LineKeeps, RequestTypes DEF F!Request
<1>3. ASSUME NEW p \in Path, NEW q \in Path, F!getCmd(p, q) \/ F!putCmd(p, q) PROVE SftpInv'
  BY <1>3, TransferKeeps DEF F!getCmd, F!putCmd, Sides
<1>4. CASE F!CopyFailed
  BY <1>4, QuietKeeps DEF F!CopyFailed
<1>5. CASE F!Leave \/ F!Cancel \/ F!Close \/ UNCHANGED F!vars
  BY <1>5, QuietKeeps DEF F!Leave, F!Cancel, F!Close, F!vars
<1> QED
  BY <1>1, <1>2, <1>3, <1>4, <1>5, PieceKeeps, DoneKeeps DEF F!Next, Sides

(* A get or a put that is reported has put the whole file there.               *)
THEOREM SftpCopiesWhole == F!Spec => []F!ReportedCopiesAreWhole
<1>1. SftpInv => F!ReportedCopiesAreWhole
  BY DEF SftpInv
<1> QED
  BY <1>1, SftpInit, SftpStep, PTL DEF F!Spec

-----------------------------------------------------------------------------
(* The decoding of a stream                                                 *)

(* A set of naturals has a least element: induction over the bytes.          *)
LEMMA LeastExists ==
  ASSUME NEW A, A \subseteq Nat, A # {}
  PROVE  \E m \in A : \A x \in A : m <= x
<1>1. PICK m \in A : \A y \in A : ~(<<y, m>> \in OpToRel(<, Nat))
  BY NatLessThanWellFounded, WFMin
<1>2. \A y \in A : ~(y < m)
  BY <1>1 DEF OpToRel
<1> QED
  BY <1>2

(* f is the decoder's state after each of the first n bytes.                  *)
Runs(d, w, n, f) == f = [i \in 0 .. n |-> IF i = 0 THEN d ELSE T!Decode(f[i - 1], w[i])]

LEMMA RunsIs ==
  ASSUME NEW d, NEW w, NEW n \in Nat, NEW f, Runs(d, w, n, f)
  PROVE  f[0] = d /\ \A i \in 1 .. n : f[i] = T!Decode(f[i - 1], w[i])
<1> DEFINE one(i) == T!Decode(f[i - 1], w[i])
<1> HIDE DEF one
<1>1. f = [i \in 0 .. n |-> IF i = 0 THEN d ELSE one(i)]
  BY DEF Runs, one
<1>2. f[0] = d /\ \A i \in 1 .. n : f[i] = one(i)
  BY <1>1
<1> QED
  BY <1>2 DEF one

LEMMA RunsExist ==
  ASSUME NEW d, NEW w
  PROVE  \A n \in Nat : \E f : Runs(d, w, n, f)
<1> DEFINE A == {n \in Nat : ~\E f : Runs(d, w, n, f)}
<1> SUFFICES ASSUME A # {} PROVE FALSE
  OBVIOUS
<1>1. PICK m \in A : \A x \in A : m <= x
  BY LeastExists
<1>2. m \in Nat /\ ~\E f : Runs(d, w, m, f)
  OBVIOUS
<1>3. m # 0
  <2> SUFFICES ASSUME m = 0 PROVE FALSE
    OBVIOUS
  <2> DEFINE f == [i \in 0 .. 0 |-> d]
             g == [i \in 0 .. 0 |-> IF i = 0 THEN d ELSE T!Decode(f[i - 1], w[i])]
  <2>1. \A i \in 0 .. 0 : i = 0
    OBVIOUS
  <2>2. f = g
    BY <2>1
  <2>3. Runs(d, w, 0, f)
    BY <2>2 DEF Runs
  <2> QED
    BY <1>2, <2>3
<1>4. m - 1 \in Nat /\ m - 1 \notin A
  BY <1>1, <1>2, <1>3
<1>5. PICK g : Runs(d, w, m - 1, g)
  BY <1>4
<1> DEFINE final == T!Decode(g[m - 1], w[m])
           f == [i \in 0 .. m |-> IF i = m THEN final ELSE g[i]]
           h == [i \in 0 .. m |-> IF i = 0 THEN d ELSE T!Decode(f[i - 1], w[i])]
<1>6. g[0] = d /\ \A i \in 1 .. m - 1 : g[i] = T!Decode(g[i - 1], w[i])
  BY <1>4, <1>5, RunsIs
<1>7. ASSUME NEW i \in 0 .. m PROVE f[i] = h[i]
  <2>1. CASE i = 0
    BY <1>2, <1>3, <1>6, <2>1
  <2>2. CASE i # 0
    <3>1. i - 1 \in 0 .. m /\ i - 1 # m
      BY <1>2, <2>2
    <3>2. f[i - 1] = g[i - 1]
      BY <3>1
    <3>3. h[i] = T!Decode(g[i - 1], w[i])
      BY <2>2, <3>2
    <3>4. CASE i = m
      BY <3>3, <3>4
    <3>5. CASE i # m
      <4>1. i \in 1 .. m - 1
        BY <1>2, <2>2, <3>5
      <4>2. g[i] = T!Decode(g[i - 1], w[i])
        BY <1>6, <4>1
      <4> HIDE DEF h
      <4> QED
        BY <3>3, <3>5, <4>2
    <3> QED
      BY <3>4, <3>5
  <2> QED
    BY <2>1, <2>2
<1>8. f = h
  <2>1. f = [i \in 0 .. m |-> f[i]] /\ h = [i \in 0 .. m |-> h[i]]
    OBVIOUS
  <2> HIDE DEF f, h
  <2> QED
    BY <1>7, <2>1
<1>9. Runs(d, w, m, f)
  BY <1>8 DEF Runs
<1> QED
  BY <1>2, <1>9

(* Two runs agree as far as both go, on the bytes that are the same.          *)
LEMMA RunsAgree ==
  ASSUME NEW d, NEW w, NEW v, NEW n \in Nat, NEW k \in Nat, n <= k, NEW f, NEW g,
         Runs(d, w, n, f), Runs(d, v, k, g), \A i \in 1 .. n : w[i] = v[i]
  PROVE  f[n] = g[n]
<1> DEFINE A == {i \in 0 .. n : f[i] # g[i]}
<1>1. /\ f[0] = d /\ g[0] = d /\ \A i \in 1 .. n : f[i] = T!Decode(f[i - 1], w[i])
      /\ \A i \in 1 .. k : g[i] = T!Decode(g[i - 1], v[i])
  BY RunsIs
<1> SUFFICES ASSUME A # {} PROVE FALSE
  BY DEF A
<1>0. A \subseteq Nat
  OBVIOUS
<1>2. PICK m \in A : \A x \in A : m <= x
  BY <1>0, LeastExists
<1>3. m # 0 /\ m \in 0 .. n
  BY <1>1, <1>2
<1>4. m \in 1 .. n /\ m \in 1 .. k /\ m - 1 \in 0 .. n
  BY <1>3
<1>5. f[m - 1] = g[m - 1]
  BY <1>2, <1>4
<1>6. f[m] = g[m]
  BY <1>1, <1>4, <1>5
<1> QED
  BY <1>2, <1>6

LEMMA DecodingIs ==
  ASSUME NEW d, NEW w \in Seq(Nat)
  PROVE  \E f : Runs(d, w, Len(w), f) /\ T!Decoding(d, w) = f[Len(w)]
<1> DEFINE f == CHOOSE g : Runs(d, w, Len(w), g)
<1>1. Len(w) \in Nat
  OBVIOUS
<1>2. Runs(d, w, Len(w), f)
  BY <1>1, RunsExist
<1>3. T!Decoding(d, w) = f[Len(w)]
  BY DEF T!Decoding, Runs
<1> QED
  BY <1>2, <1>3

LEMMA DecodingEmpty ==
  ASSUME NEW d
  PROVE  T!Decoding(d, <<>>) = d
<1>1. <<>> \in Seq(Nat) /\ Len(<<>>) = 0
  OBVIOUS
<1>2. PICK f : Runs(d, <<>>, 0, f) /\ T!Decoding(d, <<>>) = f[0]
  BY <1>1, DecodingIs
<1> QED
  BY <1>2, RunsIs

LEMMA DecodingAppend ==
  ASSUME NEW d, NEW w \in Seq(Nat), NEW b \in Nat
  PROVE  T!Decoding(d, Append(w, b)) = T!Decode(T!Decoding(d, w), b)
<1> DEFINE v == Append(w, b)
           n == Len(w)
<1>1. n \in Nat /\ v \in Seq(Nat) /\ Len(v) = n + 1 /\ v[n + 1] = b /\ \A i \in 1 .. n : w[i] = v[i]
  OBVIOUS
<1>2. PICK f : Runs(d, w, n, f) /\ T!Decoding(d, w) = f[n]
  BY DecodingIs
<1>3. PICK g : Runs(d, v, n + 1, g) /\ T!Decoding(d, v) = g[n + 1]
  BY <1>1, DecodingIs
<1> HIDE DEF v, n
<1>4. n <= n + 1 /\ n + 1 \in Nat /\ n + 1 \in 1 .. n + 1 /\ (n + 1) - 1 = n
  BY <1>1
<1>5. f[n] = g[n]
  BY <1>1, <1>2, <1>3, <1>4, RunsAgree
<1>6. g[n + 1] = T!Decode(g[(n + 1) - 1], v[n + 1])
  <2>1. \A i \in 1 .. n + 1 : g[i] = T!Decode(g[i - 1], v[i])
    BY <1>3, <1>4, RunsIs
  <2> QED
    BY <1>4, <2>1
<1> QED
  BY <1>1, <1>2, <1>3, <1>4, <1>5, <1>6 DEF v

LEMMA LastByte ==
  ASSUME NEW r \in Seq(Nat), Len(r) # 0
  PROVE  \E q \in Seq(Nat), b \in Nat : r = Append(q, b) /\ Len(q) = Len(r) - 1
<1> DEFINE n == Len(r)
           q == [i \in 1 .. n - 1 |-> r[i]]
<1>1. n \in Nat \ {0} /\ r = [i \in 1 .. n |-> r[i]] /\ \A i \in 1 .. n : r[i] \in Nat
  OBVIOUS
<1>2. n - 1 \in Nat /\ q \in Seq(Nat) /\ Len(q) = n - 1
  BY <1>1
<1>3. r[n] \in Nat
  BY <1>1
<1>4. r = Append(q, r[n])
  <2>1. Append(q, r[n]) \in Seq(Nat) /\ Len(Append(q, r[n])) = n
    BY <1>1, <1>2, <1>3
  <2>2. \A i \in 1 .. n : r[i] = Append(q, r[n])[i]
    BY <1>1, <1>2, <1>3
  <2> QED
    BY <2>1, <2>2, SeqEqual
<1> QED
  BY <1>2, <1>3, <1>4

LEMMA ConcatThree ==
  ASSUME NEW w \in Seq(Nat), NEW q \in Seq(Nat), NEW r \in Seq(Nat)
  PROVE  (w \o q) \o r = w \o (q \o r)
<1> DEFINE B == Nat
<1>1. w \in Seq(B) /\ q \in Seq(B) /\ r \in Seq(B)
  OBVIOUS
<1> HIDE DEF B
<1> QED
  BY <1>1, ConcatAssociative, SMTT(30)

(* Concatenation, for the steps that only regroup.                            *)
Cat(w, r) == w \o r

LEMMA CatThree ==
  ASSUME NEW w \in Seq(Nat), NEW q \in Seq(Nat), NEW r \in Seq(Nat)
  PROVE  Cat(Cat(w, q), r) = Cat(w, Cat(q, r)) /\ Cat(w, q) \in Seq(Nat)
<1>1. w \o q \in Seq(Nat)
  OBVIOUS
<1> QED
  BY <1>1, ConcatThree DEF Cat

(* What is answered and what is still due are what was asked.                 *)
AllAnswered(v, said, due, all) == (v \o said) \o due = all

LEMMA AnsweredMore ==
  ASSUME NEW v \in Seq(Nat), NEW said \in Seq(Nat), NEW more \in Seq(Nat),
         NEW u \in Seq(Nat), NEW all, AllAnswered(v, said, more \o u, all)
  PROVE  AllAnswered(v, said \o more, u, all)
<1>1. Cat(Cat(v, said), Cat(more, u)) = Cat(Cat(v, Cat(said, more)), u)
  BY CatThree
<1>2. Cat(Cat(v, said), Cat(more, u)) = all
  BY DEF AllAnswered, Cat
<1> QED
  BY <1>1, <1>2 DEF AllAnswered, Cat

LEMMA ConcatAppend ==
  ASSUME NEW w \in Seq(Nat), NEW q \in Seq(Nat), NEW b \in Nat
  PROVE  w \o Append(q, b) = Append(w \o q, b)
<1>1. Append(q, b) = q \o <<b>> /\ <<b>> \in Seq(Nat) /\ w \o q \in Seq(Nat)
  OBVIOUS
<1>2. Append(w \o q, b) = (w \o q) \o <<b>>
  BY <1>1
<1>3. (w \o q) \o <<b>> = w \o (q \o <<b>>)
  BY <1>1, ConcatThree
<1> QED
  BY <1>1, <1>2, <1>3

(* What follows is decoded from where the bytes before it have led.           *)
LEMMA DecodingConcat ==
  ASSUME NEW d, NEW w \in Seq(Nat)
  PROVE  \A r \in Seq(Nat) : T!Decoding(d, w \o r) = T!Decoding(T!Decoding(d, w), r)
<1> DEFINE Same(r) == T!Decoding(d, w \o r) = T!Decoding(T!Decoding(d, w), r)
           A == {n \in Nat : \E r \in Seq(Nat) : Len(r) = n /\ ~Same(r)}
<1> SUFFICES ASSUME NEW z \in Seq(Nat), ~Same(z) PROVE FALSE
  OBVIOUS
<1>1. Len(z) \in A /\ A \subseteq Nat
  OBVIOUS
<1>2. PICK m \in A : \A x \in A : m <= x
  BY <1>1, LeastExists
<1>3. PICK r \in Seq(Nat) : Len(r) = m /\ ~Same(r)
  BY <1>2
<1>4. CASE m = 0
  <2>1. r = <<>>
    BY <1>3, <1>4
  <2>2. w \o r = w
    BY <2>1
  <2>3. Same(<<>>)
    BY <2>1, <2>2, DecodingEmpty
  <2> QED
    BY <1>3, <2>1, <2>3
<1>5. CASE m # 0
  <2>1. PICK q \in Seq(Nat), b \in Nat : r = Append(q, b) /\ Len(q) = m - 1
    BY <1>3, <1>5, LastByte
  <2>2. m - 1 \in Nat /\ m - 1 \notin A
    BY <1>2, <1>5
  <2>3. Same(q)
    BY <2>1, <2>2
  <2>4. w \o r = Append(w \o q, b) /\ w \o q \in Seq(Nat)
    <3>1. w \o Append(q, b) = Append(w \o q, b)
      BY <2>1, ConcatAppend
    <3>2. w \o q \in Seq(Nat)
      BY <2>1
    <3> QED
      BY <2>1, <3>1, <3>2
  <2>5. T!Decoding(d, w \o r) = T!Decode(T!Decoding(d, w \o q), b)
    <3>1. T!Decoding(d, Append(w \o q, b)) = T!Decode(T!Decoding(d, w \o q), b)
      BY <2>4, DecodingAppend
    <3> QED
      BY <2>4, <3>1
  <2>6. T!Decoding(T!Decoding(d, w), r) = T!Decode(T!Decoding(T!Decoding(d, w), q), b)
    BY <2>1, DecodingAppend
  <2> QED
    BY <1>3, <2>3, <2>5, <2>6
<1> QED
  BY <1>4, <1>5

-----------------------------------------------------------------------------
(* Escaping                                                                 *)

Doubled(b) == IF b = 255 THEN <<255, 255>> ELSE <<b>>

LEMMA FlattenOne ==
  ASSUME NEW s
  PROVE  T!FlattenSeq(<<s>>) = s
<1> DEFINE z == <<s>>
           Flat(f) == f = [i \in 1 .. Len(z) |-> IF i = 1 THEN z[i] ELSE f[i - 1] \o z[i]]
           g == [i \in 1 .. 1 |-> s]
           h == CHOOSE f : Flat(f)
<1>1. Len(z) = 1 /\ z[1] = s
  OBVIOUS
<1>2. g = [i \in 1 .. 1 |-> IF i = 1 THEN z[i] ELSE g[i - 1] \o z[i]]
  <2>1. \A i \in 1 .. 1 : i = 1
    OBVIOUS
  <2> QED
    BY <1>1, <2>1
<1>3. Flat(g)
  BY <1>1, <1>2
<1>4. Flat(h)
  BY <1>3
<1>5. T!FlattenSeq(z) = h[1]
  BY <1>1 DEF T!FlattenSeq
<1> HIDE DEF h, z
<1>6. h[1] = z[1]
  BY <1>1, <1>4
<1> QED
  BY <1>1, <1>5, <1>6 DEF z

LEMMA FlattenTwo ==
  ASSUME NEW s, NEW t
  PROVE  T!FlattenSeq(<<s, t>>) = s \o t
<1> DEFINE z == <<s, t>>
           Flat(f) == f = [i \in 1 .. Len(z) |-> IF i = 1 THEN z[i] ELSE f[i - 1] \o z[i]]
           g == [i \in 1 .. 2 |-> IF i = 1 THEN s ELSE s \o t]
           h == CHOOSE f : Flat(f)
<1>1. Len(z) = 2 /\ z[1] = s /\ z[2] = t
  OBVIOUS
<1>2. g = [i \in 1 .. 2 |-> IF i = 1 THEN z[i] ELSE g[i - 1] \o z[i]]
  <2>1. \A i \in 1 .. 2 : i = 1 \/ i = 2
    OBVIOUS
  <2>2. g[1] = s
    OBVIOUS
  <2> QED
    BY <1>1, <2>1, <2>2
<1>3. Flat(g)
  BY <1>1, <1>2
<1>4. Flat(h)
  BY <1>3
<1>5. T!FlattenSeq(z) = h[2]
  BY <1>1 DEF T!FlattenSeq
<1> HIDE DEF h, z
<1>6. h[1] = z[1] /\ h[2] = h[1] \o z[2]
  BY <1>1, <1>4
<1> QED
  BY <1>1, <1>5, <1>6 DEF z

LEMMA EscapedOne ==
  ASSUME NEW b \in Nat
  PROVE  T!escapeIAC(<<b>>) = Doubled(b)
<1>1. [i \in DOMAIN <<b>> |-> IF <<b>>[i] = 255 THEN <<255, 255>> ELSE << <<b>>[i] >>] = << Doubled(b) >>
  BY DEF Doubled
<1> QED
  BY <1>1, FlattenOne DEF T!escapeIAC, T!IAC

LEMMA EscapedTwo ==
  ASSUME NEW a \in Nat, NEW b \in Nat
  PROVE  T!escapeIAC(<<a, b>>) = Doubled(a) \o Doubled(b)
<1>1. [i \in DOMAIN <<a, b>> |-> IF <<a, b>>[i] = 255 THEN <<255, 255>> ELSE << <<a, b>>[i] >>]
        = << Doubled(a), Doubled(b) >>
  BY DEF Doubled
<1> QED
  BY <1>1, FlattenTwo DEF T!escapeIAC, T!IAC

-----------------------------------------------------------------------------
(* What a chunk of bytes does to the decoder                                *)

(* The sizes the peer may learn.                                             *)
Announced == {T!Clamped(n) : n \in Widths}

(* A decoder's state that has learnt such sizes only.                         *)
Decoders == [m : {"data", "cmd", "opt", "sub", "subcmd"}, data : Seq(Nat), opts : Seq(Nat),
             sizes : Seq(Announced), buf : Seq(Nat)]

(* Between two commands.                                                      *)
Idle == {d \in Decoders : d.m = "data"}

(* A chunk r that answers the options o, and says nothing else but sizes.     *)
Answers(r, o) ==
  /\ r \in Seq(Nat) /\ o \in Seq(Nat)
  /\ \A d \in Idle : /\ T!Decoding(d, r) \in Idle
                     /\ T!Decoding(d, r).data = d.data
                     /\ T!Decoding(d, r).opts = d.opts \o o

LEMMA DecodingOne ==
  ASSUME NEW d, NEW a \in Nat
  PROVE  T!Decoding(d, <<a>>) = T!Decode(d, a)
<1>1. <<>> \in Seq(Nat) /\ <<a>> = Append(<<>>, a)
  OBVIOUS
<1>2. T!Decoding(d, Append(<<>>, a)) = T!Decode(T!Decoding(d, <<>>), a)
  BY <1>1, DecodingAppend
<1>3. T!Decoding(d, <<>>) = d
  BY DecodingEmpty
<1> QED
  BY <1>1, <1>2, <1>3

LEMMA DecodingTwo ==
  ASSUME NEW d, NEW a \in Nat, NEW b \in Nat
  PROVE  T!Decoding(d, <<a, b>>) = T!Decode(T!Decode(d, a), b)
<1>1. <<a>> \in Seq(Nat) /\ <<a, b>> = Append(<<a>>, b)
  OBVIOUS
<1>2. T!Decoding(d, Append(<<a>>, b)) = T!Decode(T!Decoding(d, <<a>>), b)
  BY <1>1, DecodingAppend
<1>3. T!Decoding(d, <<a>>) = T!Decode(d, a)
  BY DecodingOne
<1> QED
  BY <1>1, <1>2, <1>3

LEMMA DecodingThree ==
  ASSUME NEW d, NEW a \in Nat, NEW b \in Nat, NEW c \in Nat
  PROVE  T!Decoding(d, <<a, b, c>>) = T!Decode(T!Decode(T!Decode(d, a), b), c)
<1>1. <<a, b>> \in Seq(Nat) /\ <<a, b, c>> = Append(<<a, b>>, c)
  OBVIOUS
<1>2. T!Decoding(d, Append(<<a, b>>, c)) = T!Decode(T!Decoding(d, <<a, b>>), c)
  BY <1>1, DecodingAppend
<1>3. T!Decoding(d, <<a, b>>) = T!Decode(T!Decode(d, a), b)
  BY DecodingTwo
<1> QED
  BY <1>1, <1>2, <1>3

LEMMA AnswersNothing ==
  Answers(<<>>, <<>>)
<1>1. <<>> \in Seq(Nat)
  OBVIOUS
<1>2. ASSUME NEW d \in Idle
      PROVE  T!Decoding(d, <<>>) = d /\ d.opts \o <<>> = d.opts
  <2>1. d.opts \in Seq(Nat)
    BY DEF Idle, Decoders
  <2>2. d.opts \o <<>> = d.opts
    BY <2>1
  <2> QED
    BY <2>2, DecodingEmpty
<1> QED
  BY <1>1, <1>2 DEF Answers

LEMMA AnswersBoth ==
  ASSUME NEW r, NEW o, NEW s, NEW u, Answers(r, o), Answers(s, u)
  PROVE  Answers(r \o s, o \o u)
<1>1. r \in Seq(Nat) /\ s \in Seq(Nat) /\ o \in Seq(Nat) /\ u \in Seq(Nat)
  BY DEF Answers
<1>2. r \o s \in Seq(Nat) /\ o \o u \in Seq(Nat)
  BY <1>1
<1>3. ASSUME NEW d \in Idle
      PROVE  /\ T!Decoding(d, r \o s) \in Idle
             /\ T!Decoding(d, r \o s).data = d.data
             /\ T!Decoding(d, r \o s).opts = d.opts \o (o \o u)
  <2>1. T!Decoding(d, r \o s) = T!Decoding(T!Decoding(d, r), s)
    BY <1>1, DecodingConcat
  <2>2. /\ T!Decoding(d, r) \in Idle /\ T!Decoding(d, r).data = d.data
        /\ T!Decoding(d, r).opts = d.opts \o o
    BY DEF Answers
  <2>3. PICK e \in Idle : e = T!Decoding(d, r)
    BY <2>2
  <2>4. /\ T!Decoding(e, s) \in Idle /\ T!Decoding(e, s).data = e.data
        /\ T!Decoding(e, s).opts = e.opts \o u
    BY DEF Answers
  <2>5. d.opts \in Seq(Nat)
    BY DEF Idle, Decoders
  <2>6. (d.opts \o o) \o u = d.opts \o (o \o u)
    BY <1>1, <2>5, ConcatThree
  <2> QED
    BY <2>1, <2>2, <2>3, <2>4, <2>6
<1> QED
  BY <1>2, <1>3 DEF Answers

(* The end of a subnegotiation.                                               *)
Finished(d) ==
  [d EXCEPT !.m = "data",
            !.opts = IF Head(d.buf) = 24 THEN Append(@, 24) ELSE @,
            !.sizes = IF Head(d.buf) = 31
                      THEN Append(@, IF Len(d.buf) = 3 THEN d.buf[2] * 256 + d.buf[3] ELSE 65536)
                      ELSE @]

(* A doubled byte, among the data and within a subnegotiation.               *)
Literal(d, b) == [d EXCEPT !.m = "data", !.data = Append(@, b)]
Parameter(d, b) == [d EXCEPT !.m = "sub", !.buf = Append(@, b)]

(* One byte, by the decoder's mode.                                           *)
LEMMA DecodeIs ==
  ASSUME NEW d, NEW b
  PROVE  /\ d.m = "data" /\ b = 255 => T!Decode(d, b) = [d EXCEPT !.m = "cmd"]
         /\ d.m = "data" /\ b # 255 => T!Decode(d, b) = [d EXCEPT !.data = Append(@, b)]
         /\ d.m = "cmd" /\ b = 255 => T!Decode(d, b) = Literal(d, b)
         /\ d.m = "cmd" /\ b \in {251, 252, 253, 254} => T!Decode(d, b) = [d EXCEPT !.m = "opt"]
         /\ d.m = "cmd" /\ b = 250 => T!Decode(d, b) = [d EXCEPT !.m = "sub", !.buf = <<>>]
         /\ d.m = "opt" => T!Decode(d, b) = [d EXCEPT !.m = "data", !.opts = Append(@, b)]
         /\ d.m = "sub" /\ b = 255 => T!Decode(d, b) = [d EXCEPT !.m = "subcmd"]
         /\ d.m = "sub" /\ b # 255 => T!Decode(d, b) = [d EXCEPT !.buf = Append(@, b)]
         /\ d.m = "subcmd" /\ b = 255 => T!Decode(d, b) = Parameter(d, b)
         /\ d.m = "subcmd" /\ b = 240 => T!Decode(d, b) = Finished(d)
<1> DEFINE a1 == [d EXCEPT !.m = "cmd"]
           a2 == [d EXCEPT !.data = Append(@, b)]
           a4 == [d EXCEPT !.m = "opt"]
           a5 == [d EXCEPT !.m = "sub", !.buf = <<>>]
           a6 == [d EXCEPT !.m = "data", !.opts = Append(@, b)]
           a7 == [d EXCEPT !.m = "subcmd"]
           a8 == [d EXCEPT !.buf = Append(@, b)]
           a10 == [d EXCEPT !.m = "broken"]
<1>1. T!Decode(d, b) =
        CASE d.m = "data" /\ b = 255 -> a1
          [] d.m = "data" /\ b # 255 -> a2
          [] d.m = "cmd" /\ b = 255 -> Literal(d, b)
          [] d.m = "cmd" /\ b \in {251, 252, 253, 254} -> a4
          [] d.m = "cmd" /\ b = 250 -> a5
          [] d.m = "opt" -> a6
          [] d.m = "sub" /\ b = 255 -> a7
          [] d.m = "sub" /\ b # 255 -> a8
          [] d.m = "subcmd" /\ b = 255 -> Parameter(d, b)
          [] d.m = "subcmd" /\ b = 240 -> Finished(d)
          [] OTHER -> a10
  BY DEF T!Decode, Finished, Literal, Parameter, T!IAC, T!WILL, T!WONT, T!DO, T!DONT, T!SB, T!SE, T!TTYPE, T!NAWS
<1> HIDE DEF a1, a2, a4, a5, a6, a7, a8, a10
<1>2. d.m = "data" => T!Decode(d, b) = IF b = 255 THEN a1 ELSE a2
  BY <1>1
<1>3. d.m = "cmd" => /\ b = 255 => T!Decode(d, b) = Literal(d, b)
                     /\ b \in {251, 252, 253, 254} => T!Decode(d, b) = a4
                     /\ b = 250 => T!Decode(d, b) = a5
  BY <1>1
<1>4. d.m = "opt" => T!Decode(d, b) = a6
  BY <1>1
<1>5. d.m = "sub" => T!Decode(d, b) = IF b = 255 THEN a7 ELSE a8
  BY <1>1
<1>6. d.m = "subcmd" => /\ b = 255 => T!Decode(d, b) = Parameter(d, b)
                        /\ b = 240 => T!Decode(d, b) = Finished(d)
  BY <1>1
<1> QED
  BY <1>2, <1>3, <1>4, <1>5, <1>6 DEF a1, a2, a4, a5, a6, a7, a8

(* WILL, WONT, DO or DONT of an option.                                       *)
LEMMA AnswersOption ==
  ASSUME NEW x \in {251, 252, 253, 254}, NEW o \in Nat
  PROVE  Answers(<<255, x, o>>, <<o>>)
<1>1. <<255, x, o>> \in Seq(Nat) /\ <<o>> \in Seq(Nat)
  OBVIOUS
<1>2. ASSUME NEW d \in Idle
      PROVE  T!Decoding(d, <<255, x, o>>) = [d EXCEPT !.opts = Append(@, o)]
  <2>0. d \in Decoders /\ d.m = "data"
    BY DEF Idle
  <2> DEFINE e == [d EXCEPT !.m = "cmd"]
             f == [d EXCEPT !.m = "opt"]
  <2>1. T!Decode(d, 255) = e
    BY <2>0, DecodeIs
  <2>2. e.m = "cmd" /\ [e EXCEPT !.m = "opt"] = f
    BY <2>0 DEF Decoders
  <2>3. f.m = "opt" /\ f.opts = d.opts
    BY <2>0 DEF Decoders
  <2>4. [f EXCEPT !.m = "data", !.opts = Append(@, o)] = [d EXCEPT !.opts = Append(@, o)]
    BY <2>0 DEF Decoders
  <2> HIDE DEF e, f
  <2>5. T!Decode(e, x) = f
    BY <2>2, DecodeIs
  <2>6. T!Decode(f, o) = [f EXCEPT !.m = "data", !.opts = Append(@, o)]
    BY <2>3, DecodeIs
  <2>7. T!Decoding(d, <<255, x, o>>) = T!Decode(T!Decode(T!Decode(d, 255), x), o)
    BY DecodingThree
  <2> QED
    BY <2>1, <2>4, <2>5, <2>6, <2>7
<1>3. ASSUME NEW d \in Idle
      PROVE  /\ T!Decoding(d, <<255, x, o>>) \in Idle
             /\ T!Decoding(d, <<255, x, o>>).data = d.data
             /\ T!Decoding(d, <<255, x, o>>).opts = d.opts \o <<o>>
  <2>1. d \in Decoders /\ d.m = "data" /\ d.opts \in Seq(Nat)
    BY DEF Idle, Decoders
  <2>2. Append(d.opts, o) \in Seq(Nat) /\ Append(d.opts, o) = d.opts \o <<o>>
    BY <2>1
  <2> DEFINE u == Append(d.opts, o)
             e == [d EXCEPT !.opts = u]
  <2> HIDE DEF u
  <2>3. e \in Decoders /\ e.m = "data" /\ e.data = d.data /\ e.opts = u
    BY <2>1, <2>2 DEF Decoders, u
  <2>4. T!Decoding(d, <<255, x, o>>) = e
    BY <1>2 DEF u
  <2> QED
    BY <2>2, <2>3, <2>4, ZenonT(40) DEF Idle, u
<1> QED
  BY <1>1, <1>3 DEF Answers

LEMMA DecodeDoubled ==
  ASSUME NEW d
  PROVE  /\ d.m = "cmd" => T!Decode(d, 255) = Literal(d, 255)
         /\ d.m = "subcmd" => T!Decode(d, 255) = Parameter(d, 255)
<1>1. \A b : d.m = "cmd" /\ b = 255 => T!Decode(d, b) = Literal(d, b)
  BY DecodeIs, ZenonT(60)
<1>2. \A b : d.m = "subcmd" /\ b = 255 => T!Decode(d, b) = Parameter(d, b)
  BY DecodeIs, ZenonT(60)
<1> QED
  BY <1>1, <1>2

(* A typed byte.                                                              *)
LEMMA DecodesText ==
  ASSUME NEW d \in Idle, NEW b \in Nat
  PROVE  T!Decoding(d, Doubled(b)) = [d EXCEPT !.data = Append(@, b)]
<1>0. d \in Decoders /\ d.m = "data"
  BY DEF Idle
<1>1. CASE b = 255
  <2> DEFINE e == [d EXCEPT !.m = "cmd"]
  <2>1. T!Decode(d, 255) = e
    BY <1>0, DecodeIs
  <2>2. e.m = "cmd" /\ e.data = d.data
    BY <1>0 DEF Decoders
  <2>3. Literal(e, b) = [d EXCEPT !.data = Append(@, b)]
    BY <1>0 DEF Decoders, Literal
  <2>4. T!Decoding(d, <<255, 255>>) = T!Decode(T!Decode(d, 255), 255)
    BY DecodingTwo
  <2> HIDE DEF e
  <2>5. T!Decode(e, b) = Literal(e, b)
    BY <1>1, <2>2, DecodeDoubled
  <2> QED
    BY <1>1, <2>1, <2>3, <2>4, <2>5 DEF Doubled
<1>2. CASE b # 255
  <2>1. T!Decode(d, b) = [d EXCEPT !.data = Append(@, b)]
    BY <1>0, <1>2, DecodeIs
  <2>2. T!Decoding(d, <<b>>) = T!Decode(d, b)
    BY DecodingOne
  <2> QED
    BY <1>2, <2>1, <2>2 DEF Doubled
<1> QED
  BY <1>1, <1>2

(* The same byte within a subnegotiation.                                     *)
LEMMA DecodesParameter ==
  ASSUME NEW d \in Decoders, d.m = "sub", NEW b \in Nat
  PROVE  T!Decoding(d, Doubled(b)) = [d EXCEPT !.buf = Append(@, b)]
<1>1. CASE b = 255
  <2> DEFINE e == [d EXCEPT !.m = "subcmd"]
  <2>1. T!Decode(d, 255) = e
    BY DecodeIs
  <2>2. e.m = "subcmd" /\ e.buf = d.buf
    BY DEF Decoders
  <2>3. Parameter(e, b) = [d EXCEPT !.buf = Append(@, b)]
    BY DEF Decoders, Parameter
  <2>4. T!Decoding(d, <<255, 255>>) = T!Decode(T!Decode(d, 255), 255)
    BY DecodingTwo
  <2> HIDE DEF e
  <2>5. T!Decode(e, b) = Parameter(e, b)
    BY <1>1, <2>2, DecodeDoubled
  <2> QED
    BY <1>1, <2>1, <2>3, <2>4, <2>5 DEF Doubled
<1>2. CASE b # 255
  <2>1. T!Decode(d, b) = [d EXCEPT !.buf = Append(@, b)]
    BY <1>2, DecodeIs
  <2>2. T!Decoding(d, <<b>>) = T!Decode(d, b)
    BY DecodingOne
  <2> QED
    BY <1>2, <2>1, <2>2 DEF Doubled
<1> QED
  BY <1>1, <1>2

(* The head of a subnegotiation.                                              *)
LEMMA DecodesHead ==
  ASSUME NEW d \in Idle, NEW o \in Nat, o # 255
  PROVE  T!Decoding(d, <<255, 250, o>>) = [d EXCEPT !.m = "sub", !.buf = <<o>>]
<1>0. d \in Decoders /\ d.m = "data"
  BY DEF Idle
<1> DEFINE e == [d EXCEPT !.m = "cmd"]
           f == [d EXCEPT !.m = "sub", !.buf = <<>>]
<1>1. T!Decode(d, 255) = e
  BY <1>0, DecodeIs
<1>2. e.m = "cmd" /\ [e EXCEPT !.m = "sub", !.buf = <<>>] = f
  BY <1>0 DEF Decoders
<1>3. f.m = "sub" /\ f.buf = <<>>
  BY <1>0 DEF Decoders
<1>4. [f EXCEPT !.buf = Append(@, o)] = [d EXCEPT !.m = "sub", !.buf = <<o>>]
  <2>1. Append(f.buf, o) = <<o>>
    BY <1>3
  <2>2. [f EXCEPT !.buf = <<o>>] = [d EXCEPT !.m = "sub", !.buf = <<o>>]
    BY <1>0 DEF Decoders
  <2> HIDE DEF f
  <2> QED
    BY <2>1, <2>2
<1>5. T!Decoding(d, <<255, 250, o>>) = T!Decode(T!Decode(T!Decode(d, 255), 250), o)
  BY DecodingThree
<1> HIDE DEF e, f
<1>6. T!Decode(e, 250) = f
  BY <1>2, DecodeIs
<1>7. T!Decode(f, o) = [f EXCEPT !.buf = Append(@, o)]
  BY <1>3, DecodeIs
<1> QED
  BY <1>1, <1>4, <1>5, <1>6, <1>7, SMTT(30)

(* Its end.                                                                   *)
LEMMA DecodesEnd ==
  ASSUME NEW d \in Decoders, d.m = "sub"
  PROVE  T!Decoding(d, <<255, 240>>) = Finished([d EXCEPT !.m = "subcmd"])
<1> DEFINE e == [d EXCEPT !.m = "subcmd"]
<1>1. T!Decode(d, 255) = e
  BY DecodeIs
<1>2. e.m = "subcmd"
  BY DEF Decoders
<1>3. T!Decoding(d, <<255, 240>>) = T!Decode(T!Decode(d, 255), 240)
  BY DecodingTwo
<1> HIDE DEF e
<1>4. T!Decode(e, 240) = Finished(e)
  <2>1. \A b : e.m = "subcmd" /\ b = 240 => T!Decode(e, b) = Finished(e)
    BY DecodeIs, ZenonT(90)
  <2> QED
    BY <1>2, <2>1
<1> QED
  BY <1>1, <1>3, <1>4 DEF e

(* The decoder within a subnegotiation, and after it.                         *)
Within(d, s) == [d EXCEPT !.m = "sub", !.buf = s]
After(d, u, z, s) == [d EXCEPT !.opts = u, !.sizes = z, !.buf = s]

LEMMA WithinHead ==
  ASSUME NEW d \in Idle, NEW o \in Nat, o # 255
  PROVE  T!Decoding(d, <<255, 250, o>>) = Within(d, <<o>>)
BY DecodesHead DEF Within

LEMMA WithinStep ==
  ASSUME NEW d \in Idle, NEW s \in Seq(Nat), NEW b \in Nat
  PROVE  T!Decoding(Within(d, s), Doubled(b)) = Within(d, Append(s, b))
<1>0. d \in Decoders
  BY DEF Idle
<1>1. Within(d, s) \in Decoders /\ Within(d, s).m = "sub" /\ Within(d, s).buf = s
  BY <1>0 DEF Decoders, Within
<1>2. T!Decoding(Within(d, s), Doubled(b)) = [Within(d, s) EXCEPT !.buf = Append(@, b)]
  BY <1>1, DecodesParameter
<1>3. [Within(d, s) EXCEPT !.buf = Append(@, b)] = [Within(d, s) EXCEPT !.buf = Append(s, b)]
  BY <1>1
<1> DEFINE t == Append(s, b)
<1> HIDE DEF t
<1>4. [Within(d, s) EXCEPT !.buf = t] = Within(d, t)
  BY <1>0 DEF Decoders, Within
<1> QED
  BY <1>2, <1>3, <1>4 DEF t

(* The options and the sizes after a subnegotiation of the bytes s.           *)
Opts(d, s) == IF Head(s) = 24 THEN Append(d.opts, 24) ELSE d.opts
Sizes(d, s) == IF Head(s) = 31
               THEN Append(d.sizes, IF Len(s) = 3 THEN s[2] * 256 + s[3] ELSE 65536)
               ELSE d.sizes

LEMMA WithinEnd ==
  ASSUME NEW d \in Idle, NEW s \in Seq(Nat)
  PROVE  T!Decoding(Within(d, s), <<255, 240>>) = After(d, Opts(d, s), Sizes(d, s), s)
<1>0. d \in Decoders /\ d.m = "data"
  BY DEF Idle
<1>1. Within(d, s) \in Decoders /\ Within(d, s).m = "sub"
  BY <1>0 DEF Decoders, Within
<1> DEFINE e == [Within(d, s) EXCEPT !.m = "subcmd"]
<1>2. T!Decoding(Within(d, s), <<255, 240>>) = Finished(e)
  BY <1>1, DecodesEnd
<1>3. \A u, z : [e EXCEPT !.m = "data", !.opts = u, !.sizes = z] = After(d, u, z, s)
  BY <1>0 DEF Decoders, Within, After
<1>4. e.opts = d.opts /\ e.sizes = d.sizes /\ e.buf = s
  BY <1>0 DEF Decoders, Within
<1> HIDE DEF e
<1>5. Finished(e) = [e EXCEPT !.m = "data", !.opts = Opts(e, s), !.sizes = Sizes(e, s)]
  BY <1>4 DEF Finished, Opts, Sizes
<1>6. Opts(e, s) = Opts(d, s) /\ Sizes(e, s) = Sizes(d, s)
  BY <1>4 DEF Opts, Sizes
<1> QED
  BY <1>2, <1>3, <1>5, <1>6

LEMMA ClampedIs ==
  ASSUME NEW n \in Widths
  PROVE  /\ T!Clamped(n) \in Nat /\ T!Clamped(n) \in Announced
         /\ T!Clamped(n) \div 256 \in Nat /\ T!Clamped(n) % 256 \in Nat
         /\ (T!Clamped(n) \div 256) * 256 + (T!Clamped(n) % 256) = T!Clamped(n)
<1>1. n \in Nat
  BY TelnetAssumption
<1>2. T!Clamped(n) \in Nat
  BY <1>1 DEF T!Clamped
<1> DEFINE c == T!Clamped(n)
<1>3. c \in Nat
  BY <1>2
<1>4. c \in Announced
  BY DEF Announced
<1> HIDE DEF c
<1>5. c \div 256 \in Nat /\ c % 256 \in Nat /\ (c \div 256) * 256 + (c % 256) = c
  BY <1>3
<1> QED
  BY <1>3, <1>4, <1>5 DEF c

(* Three parameters are read back.                                            *)
LEMMA ThreeBytes ==
  ASSUME NEW a \in Nat, NEW b \in Nat, NEW c \in Nat
  PROVE  /\ <<a>> \in Seq(Nat) /\ <<a, b>> \in Seq(Nat) /\ <<a, b, c>> \in Seq(Nat)
         /\ Append(<<a>>, b) = <<a, b>> /\ Append(<<a, b>>, c) = <<a, b, c>>
         /\ Len(<<a, b, c>>) = 3 /\ Head(<<a, b, c>>) = a
         /\ <<a, b, c>>[2] = b /\ <<a, b, c>>[3] = c
<1>1. <<a>> \in Seq(Nat) /\ <<a, b>> \in Seq(Nat) /\ <<a, b, c>> \in Seq(Nat)
  OBVIOUS
<1>2. <<a, b>> = Append(<<a>>, b)
  OBVIOUS
<1>3. <<a, b, c>> = Append(<<a, b>>, c)
  OBVIOUS
<1>4. Len(<<a, b, c>>) = 3 /\ <<a, b, c>>[1] = a /\ <<a, b, c>>[2] = b /\ <<a, b, c>>[3] = c
  OBVIOUS
<1>5. Head(<<a, b, c>>) = a
  BY <1>1, <1>4
<1> QED
  BY <1>1, <1>2, <1>3, <1>4, <1>5

(* A subnegotiation of three bytes, escaped, is taken up whole.               *)
LEMMA DecodesThree ==
  ASSUME NEW d \in Idle, NEW o \in Nat, o # 255, NEW a \in Nat, NEW b \in Nat
  PROVE  LET r == (<<255, 250, o>> \o (Doubled(a) \o Doubled(b))) \o <<255, 240>>
             s == <<o, a, b>>
         IN  r \in Seq(Nat) /\ T!Decoding(d, r) = After(d, Opts(d, s), Sizes(d, s), s)
<1> DEFINE head == <<255, 250, o>>
           tail == <<255, 240>>
           body == Doubled(a) \o Doubled(b)
           r == (head \o body) \o tail
           s == <<o, a, b>>
<1>1. /\ head \in Seq(Nat) /\ tail \in Seq(Nat)
      /\ Doubled(a) \in Seq(Nat) /\ Doubled(b) \in Seq(Nat)
  BY DEF Doubled
<1>2. body \in Seq(Nat)
  BY <1>1
<1>3. T!Decoding(d, head) = Within(d, <<o>>)
  BY WithinHead
<1>4. T!Decoding(Within(d, s), tail) = After(d, Opts(d, s), Sizes(d, s), s)
  <2>1. s \in Seq(Nat)
    BY ThreeBytes
  <2> HIDE DEF s
  <2> QED
    BY <2>1, WithinEnd
<1>5. T!Decoding(Within(d, <<o>>), body) = Within(d, s)
  <2>1. T!Decoding(Within(d, <<o>>), body)
          = T!Decoding(T!Decoding(Within(d, <<o>>), Doubled(a)), Doubled(b))
    BY <1>1, DecodingConcat
  <2>2. /\ <<o>> \in Seq(Nat) /\ <<o, a>> \in Seq(Nat)
        /\ Append(<<o>>, a) = <<o, a>> /\ Append(<<o, a>>, b) = <<o, a, b>>
    BY ThreeBytes
  <2>3. T!Decoding(Within(d, <<o>>), Doubled(a)) = Within(d, Append(<<o>>, a))
    BY <2>2, WithinStep
  <2>4. T!Decoding(Within(d, <<o, a>>), Doubled(b)) = Within(d, Append(<<o, a>>, b))
    BY <2>2, WithinStep
  <2> HIDE DEF body
  <2> QED
    BY <2>1, <2>2, <2>3, <2>4
<1> HIDE DEF head, tail, body, s
<1>6. head \o body \in Seq(Nat) /\ r \in Seq(Nat)
  BY <1>1, <1>2
<1>7. T!Decoding(d, r) = T!Decoding(T!Decoding(d, head \o body), tail)
  BY <1>1, <1>6, DecodingConcat
<1>8. T!Decoding(d, head \o body) = T!Decoding(T!Decoding(d, head), body)
  BY <1>1, <1>2, DecodingConcat
<1>9. T!Decoding(d, r) = After(d, Opts(d, s), Sizes(d, s), s)
  BY <1>3, <1>4, <1>5, <1>7, <1>8
<1> QED
  BY <1>6, <1>9 DEF head, tail, body, s

LEMMA AppendIs ==
  ASSUME NEW s \in Seq(Nat), NEW b \in Nat
  PROVE  Append(s, b) = s \o <<b>> /\ Append(s, b) \in Seq(Nat)
OBVIOUS

LEMMA StartIsIdle ==
  T!Start \in Idle
<1>1. <<>> \in Seq(Nat) /\ <<>> \in Seq(Announced)
  OBVIOUS
<1> QED
  BY <1>1 DEF T!Start, Idle, Decoders

(* A window size, whatever its bytes.                                         *)
LEMMA AnswersNAWS ==
  ASSUME NEW n \in Widths
  PROVE  Answers(T!buildNAWS(n), <<>>)
<1> DEFINE c == T!Clamped(n)
           hi == c \div 256
           lo == c % 256
           s == <<31, hi, lo>>
           r == (<<255, 250, 31>> \o (Doubled(hi) \o Doubled(lo))) \o <<255, 240>>
<1>1. c \in Announced /\ hi \in Nat /\ lo \in Nat /\ hi * 256 + lo = c
  BY ClampedIs
<1>2. T!escapeIAC(<<hi, lo>>) = Doubled(hi) \o Doubled(lo)
  BY <1>1, EscapedTwo, ZenonT(40)
<1>3. T!buildNAWS(n) = r
  BY <1>2, ZenonT(40) DEF T!buildNAWS, T!IAC, T!SB, T!NAWS, T!SE
<1> HIDE DEF c, hi, lo
<1>4. s \in Seq(Nat) /\ Len(s) = 3 /\ Head(s) = 31 /\ s[2] = hi /\ s[3] = lo
  BY <1>1, ThreeBytes
<1>5. <<>> \in Seq(Nat)
  OBVIOUS
<1>6. ASSUME NEW d \in Idle
      PROVE  /\ r \in Seq(Nat) /\ T!Decoding(d, r) \in Idle
             /\ T!Decoding(d, r).data = d.data /\ T!Decoding(d, r).opts = d.opts \o <<>>
  <2>1. r \in Seq(Nat) /\ T!Decoding(d, r) = After(d, Opts(d, s), Sizes(d, s), s)
    BY <1>1, DecodesThree
  <2> HIDE DEF r, s
  <2>2. /\ d \in Decoders /\ d.m = "data" /\ d.opts \in Seq(Nat)
        /\ d.sizes \in Seq(Announced)
    BY DEF Idle, Decoders
  <2>3. d.opts \o <<>> = d.opts
    BY <2>2
  <2>4. Opts(d, s) = d.opts
    BY <1>4 DEF Opts
  <2>5. Sizes(d, s) = Append(d.sizes, c)
    BY <1>1, <1>4 DEF Sizes
  <2>6. Sizes(d, s) \in Seq(Announced)
    BY <1>1, <2>2, <2>5
  <2> DEFINE z == Sizes(d, s)
  <2> HIDE DEF z
  <2>7. /\ After(d, d.opts, z, s) \in Idle
        /\ After(d, d.opts, z, s).data = d.data /\ After(d, d.opts, z, s).opts = d.opts
    BY <1>4, <2>2, <2>6 DEF After, Idle, Decoders, z
  <2> QED
    BY <2>1, <2>3, <2>4, <2>7 DEF z
<1>7. \E d : d \in Idle
  BY StartIsIdle
<1> HIDE DEF r
<1> QED
  BY <1>3, <1>5, <1>6, <1>7 DEF Answers

(* The terminal type, x.                                                      *)
LEMMA AnswersTType ==
  Answers(<<255, 250, 24, 0>> \o <<120>> \o <<255, 240>>, <<24>>)
<1> DEFINE s == <<24, 0, 120>>
           r == (<<255, 250, 24>> \o (Doubled(0) \o Doubled(120))) \o <<255, 240>>
<1>1. r = <<255, 250, 24, 0>> \o <<120>> \o <<255, 240>>
  BY DEF Doubled
<1>2. s \in Seq(Nat) /\ Len(s) = 3 /\ Head(s) = 24
  BY ThreeBytes
<1>3. <<24>> \in Seq(Nat)
  OBVIOUS
<1>4. ASSUME NEW d \in Idle
      PROVE  /\ r \in Seq(Nat) /\ T!Decoding(d, r) \in Idle
             /\ T!Decoding(d, r).data = d.data /\ T!Decoding(d, r).opts = d.opts \o <<24>>
  <2>1. r \in Seq(Nat) /\ T!Decoding(d, r) = After(d, Opts(d, s), Sizes(d, s), s)
    BY DecodesThree
  <2> HIDE DEF r, s
  <2>2. /\ d \in Decoders /\ d.m = "data" /\ d.opts \in Seq(Nat)
        /\ d.sizes \in Seq(Announced)
    BY DEF Idle, Decoders
  <2>3. Append(d.opts, 24) = d.opts \o <<24>> /\ Append(d.opts, 24) \in Seq(Nat)
    BY <2>2, AppendIs
  <2>4. Opts(d, s) = Append(d.opts, 24)
    BY <1>2 DEF Opts
  <2>5. Sizes(d, s) = d.sizes
    BY <1>2 DEF Sizes
  <2> DEFINE u == Opts(d, s)
  <2> HIDE DEF u
  <2>6. u \in Seq(Nat)
    BY <2>3, <2>4 DEF u
  <2>7. /\ After(d, u, d.sizes, s) \in Idle
        /\ After(d, u, d.sizes, s).data = d.data /\ After(d, u, d.sizes, s).opts = u
    BY <1>2, <2>2, <2>6 DEF After, Idle, Decoders
  <2> QED
    BY <2>1, <2>3, <2>4, <2>5, <2>7 DEF u
<1>5. \E d : d \in Idle
  BY StartIsIdle
<1> HIDE DEF r
<1>6. Answers(r, <<24>>)
  BY <1>3, <1>4, <1>5 DEF Answers
<1> QED
  BY <1>1, <1>6

-----------------------------------------------------------------------------
(* Where feed stands in what the peer sends: the bytes to come, the mode, and *)
(* the data and the answers that are still due.                               *)

Between(bs, md, rest, due) ==
  bs = <<>> /\ md = "normal" /\ rest = <<>> /\ due = <<>>

InText(bs, md, rest, due) ==
  /\ due = <<>>
  /\ \/ \E b \in Nat \ {255} : rest = <<b>> /\ bs = <<b>> /\ md = "normal"
     \/ rest = <<255>> /\ bs = <<255, 255>> /\ md = "normal"
     \/ rest = <<255>> /\ bs = <<255>> /\ md = "iac"

Asking(c) ==
  IF c = 251 THEN "will" ELSE IF c = 252 THEN "wont" ELSE IF c = 253 THEN "do" ELSE "dont"

AtOption(c, o, bs, md, due) ==
  /\ due = IF c \in {251, 253} THEN <<o>> ELSE <<>>
  /\ \/ bs = <<255, c, o>> /\ md = "normal"
     \/ bs = <<c, o>> /\ md = "iac"
     \/ bs = <<o>> /\ md = Asking(c)

InOption(bs, md, rest, due) ==
  /\ rest = <<>>
  /\ \E c \in {251, 252, 253, 254}, o \in Options : AtOption(c, o, bs, md, due)

InNop(bs, md, rest, due) ==
  /\ rest = <<>> /\ due = <<>>
  /\ \/ bs = <<255, 241>> /\ md = "normal"
     \/ bs = <<241>> /\ md = "iac"

InTType(bs, md, so, sb, rest, due) ==
  /\ rest = <<>> /\ due = <<24>>
  /\ \/ bs = <<255, 250, 24, 1, 255, 240>> /\ md = "normal"
     \/ bs = <<250, 24, 1, 255, 240>> /\ md = "iac"
     \/ bs = <<24, 1, 255, 240>> /\ md = "sb"
     \/ bs = <<1, 255, 240>> /\ md = "sbData" /\ so = 24 /\ sb = <<>>
     \/ bs = <<255, 240>> /\ md = "sbData" /\ so = 24 /\ sb = <<1>>
     \/ bs = <<240>> /\ md = "sbIAC" /\ so = 24 /\ sb = <<1>>

InLinemode(bs, md, so, rest, due) ==
  /\ rest = <<>> /\ due = <<>>
  /\ \/ bs = <<255, 250, 34, 255, 255, 240, 255, 240>> /\ md = "normal"
     \/ bs = <<250, 34, 255, 255, 240, 255, 240>> /\ md = "iac"
     \/ bs = <<34, 255, 255, 240, 255, 240>> /\ md = "sb"
     \/ bs = <<255, 255, 240, 255, 240>> /\ md = "sbData" /\ so = 34
     \/ bs = <<255, 240, 255, 240>> /\ md = "sbIAC" /\ so = 34
     \/ bs = <<240, 255, 240>> /\ md = "sbData" /\ so = 34
     \/ bs = <<255, 240>> /\ md = "sbData" /\ so = 34
     \/ bs = <<240>> /\ md = "sbIAC" /\ so = 34

Position(bs, md, so, sb, rest, due) ==
  \/ Between(bs, md, rest, due)
  \/ InText(bs, md, rest, due)
  \/ InOption(bs, md, rest, due)
  \/ InNop(bs, md, rest, due)
  \/ InTType(bs, md, so, sb, rest, due)
  \/ InLinemode(bs, md, so, rest, due)

(* Each side has understood the other as far as the bytes have come.          *)
TelnetInv ==
  /\ put \in Seq(Nat) /\ wire \in Seq(Nat) /\ typed \in Seq(Nat) /\ size \in Widths
  /\ T!Decoded \in Idle /\ T!Decoded.data = typed
  /\ \E rest, due, said \in Seq(Nat) :
       /\ Position(incoming, mode, sbOpt, sbBuf, rest, due)
       /\ put \o rest = meant
       /\ Answers(reply, said)
       /\ (T!Decoded.opts \o said) \o due = asked

(* A byte fed: what was due is out or answered, or still due.                 *)
Fed(rest, due) ==
  \E r, u, x, said \in Seq(Nat) :
    /\ Position(incoming', mode', sbOpt', sbBuf', r, u)
    /\ put' \in Seq(Nat) /\ put' \o r = put \o rest
    /\ reply' = reply \o x /\ Answers(x, said) /\ said \o u = due

LEMMA FeedIs ==
  ASSUME T!feed
  PROVE  /\ incoming # <<>> /\ incoming' = Tail(incoming)
         /\ mode = "normal" => T!FeedNormal(Head(incoming))
         /\ mode = "iac" => T!FeedIAC(Head(incoming))
         /\ mode \in {"will", "wont", "do", "dont"} => T!FeedOption(Head(incoming))
         /\ mode = "sb" => T!FeedSB(Head(incoming))
         /\ mode = "sbData" => T!FeedSBData(Head(incoming))
         /\ mode = "sbIAC" => T!FeedSBIAC(Head(incoming))
         /\ UNCHANGED <<sent, meant, asked, size, wire, typed, frames>>
BY DEF T!feed

(* Nothing is out and nothing is answered.                                    *)
LEMMA FedQuiet ==
  ASSUME NEW rest \in Seq(Nat), NEW due \in Seq(Nat), put \in Seq(Nat), reply \in Seq(Nat),
         put' = put, reply' = reply,
         Position(incoming', mode', sbOpt', sbBuf', rest, due)
  PROVE  Fed(rest, due)
<1>1. <<>> \in Seq(Nat) /\ reply = reply \o <<>> /\ <<>> \o due = due
  OBVIOUS
<1>2. Answers(<<>>, <<>>)
  BY AnswersNothing
<1> QED
  BY <1>1, <1>2 DEF Fed

(* A byte is out.                                                             *)
LEMMA FedText ==
  ASSUME NEW b \in Nat, put \in Seq(Nat), reply \in Seq(Nat),
         put' = Append(put, b), reply' = reply,
         Position(incoming', mode', sbOpt', sbBuf', <<>>, <<>>)
  PROVE  Fed(<<b>>, <<>>)
<1>1. <<>> \in Seq(Nat) /\ reply = reply \o <<>> /\ <<>> \o <<>> = <<>>
  OBVIOUS
<1>2. Append(put, b) = put \o <<b>> /\ Append(put, b) \in Seq(Nat)
  BY AppendIs
<1>3. put' \in Seq(Nat) /\ put' \o <<>> = put \o <<b>>
  BY <1>2
<1>4. Answers(<<>>, <<>>)
  BY AnswersNothing
<1> QED
  BY <1>1, <1>3, <1>4 DEF Fed

(* What was due is answered.                                                  *)
LEMMA FedAnswer ==
  ASSUME NEW x, NEW due, put \in Seq(Nat), put' = put, reply' = reply \o x, Answers(x, due),
         Position(incoming', mode', sbOpt', sbBuf', <<>>, <<>>)
  PROVE  Fed(<<>>, due)
<1>1. <<>> \in Seq(Nat) /\ x \in Seq(Nat) /\ due \in Seq(Nat)
  BY DEF Answers
<1>2. due \o <<>> = due
  BY <1>1
<1> QED
  BY <1>1, <1>2 DEF Fed

LEMMA OneByte ==
  ASSUME NEW a \in Nat
  PROVE  Head(<<a>>) = a /\ Tail(<<a>>) = <<>>
OBVIOUS

LEMMA TwoBytes ==
  ASSUME NEW a \in Nat, NEW b \in Nat
  PROVE  Head(<<a, b>>) = a /\ Tail(<<a, b>>) = <<b>>
OBVIOUS

LEMMA ThreeBytesTail ==
  ASSUME NEW a \in Nat, NEW b \in Nat, NEW c \in Nat
  PROVE  Head(<<a, b, c>>) = a /\ Tail(<<a, b, c>>) = <<b, c>>
OBVIOUS

LEMMA FeedInText ==
  ASSUME NEW rest \in Seq(Nat), NEW due \in Seq(Nat), put \in Seq(Nat), reply \in Seq(Nat),
         InText(incoming, mode, rest, due), T!feed
  PROVE  Fed(rest, due)
<1>0. due = <<>>
  BY DEF InText
<1>1. ASSUME NEW b \in Nat \ {255}, rest = <<b>>, incoming = <<b>>, mode = "normal"
      PROVE  Fed(rest, due)
  <2>1. Head(incoming) = b /\ Tail(incoming) = <<>>
    BY <1>1, OneByte
  <2>2. T!FeedNormal(b) /\ incoming' = <<>>
    BY <1>1, <2>1, FeedIs
  <2>3. mode' = "normal" /\ put' = Append(put, b) /\ reply' = reply
    BY <2>2 DEF T!FeedNormal, T!IAC
  <2>4. Position(incoming', mode', sbOpt', sbBuf', <<>>, <<>>)
    BY <2>2, <2>3 DEF Position, Between
  <2>5. Fed(<<b>>, <<>>)
    BY <2>3, <2>4, FedText
  <2> QED
    BY <1>0, <1>1, <2>5
<1>2. CASE rest = <<255>> /\ incoming = <<255, 255>> /\ mode = "normal"
  <2>1. Head(incoming) = 255 /\ Tail(incoming) = <<255>>
    BY <1>2, TwoBytes
  <2>2. T!FeedNormal(255) /\ incoming' = <<255>>
    BY <1>2, <2>1, FeedIs
  <2>3. mode' = "iac" /\ put' = put /\ reply' = reply
    BY <2>2 DEF T!FeedNormal, T!IAC
  <2>4. Position(incoming', mode', sbOpt', sbBuf', rest, due)
    BY <1>0, <1>2, <2>2, <2>3 DEF Position, InText
  <2> QED
    BY <2>3, <2>4, FedQuiet
<1>3. CASE rest = <<255>> /\ incoming = <<255>> /\ mode = "iac"
  <2>1. Head(incoming) = 255 /\ Tail(incoming) = <<>>
    BY <1>3, OneByte
  <2>2. T!FeedIAC(255) /\ incoming' = <<>>
    BY <1>3, <2>1, FeedIs
  <2>3. mode' = "normal" /\ put' = Append(put, 255) /\ reply' = reply
    BY <2>2 DEF T!FeedIAC, T!IAC, T!WILL, T!WONT, T!DO, T!DONT, T!SB
  <2>4. Position(incoming', mode', sbOpt', sbBuf', <<>>, <<>>)
    BY <2>2, <2>3 DEF Position, Between
  <2>5. Fed(<<255>>, <<>>)
    BY <2>3, <2>4, FedText
  <2> QED
    BY <1>0, <1>3, <2>5
<1> QED
  BY <1>1, <1>2, <1>3 DEF InText

LEMMA FeedInNop ==
  ASSUME NEW rest \in Seq(Nat), NEW due \in Seq(Nat), put \in Seq(Nat), reply \in Seq(Nat),
         InNop(incoming, mode, rest, due), T!feed
  PROVE  Fed(rest, due)
<1>0. rest = <<>> /\ due = <<>>
  BY DEF InNop
<1>1. CASE incoming = <<255, 241>> /\ mode = "normal"
  <2>1. Head(incoming) = 255 /\ Tail(incoming) = <<241>>
    BY <1>1, TwoBytes
  <2>2. T!FeedNormal(255) /\ incoming' = <<241>>
    BY <1>1, <2>1, FeedIs
  <2>3. mode' = "iac" /\ put' = put /\ reply' = reply
    BY <2>2 DEF T!FeedNormal, T!IAC
  <2>4. Position(incoming', mode', sbOpt', sbBuf', rest, due)
    BY <1>0, <2>2, <2>3 DEF Position, InNop
  <2> QED
    BY <2>3, <2>4, FedQuiet
<1>2. CASE incoming = <<241>> /\ mode = "iac"
  <2>1. Head(incoming) = 241 /\ Tail(incoming) = <<>>
    BY <1>2, OneByte
  <2>2. T!FeedIAC(241) /\ incoming' = <<>>
    BY <1>2, <2>1, FeedIs
  <2>3. mode' = "normal" /\ put' = put /\ reply' = reply
    BY <2>2 DEF T!FeedIAC, T!IAC, T!WILL, T!WONT, T!DO, T!DONT, T!SB
  <2>4. Position(incoming', mode', sbOpt', sbBuf', rest, due)
    BY <1>0, <2>2, <2>3 DEF Position, Between
  <2> QED
    BY <2>3, <2>4, FedQuiet
<1> QED
  BY <1>1, <1>2 DEF InNop

(* feed in a subnegotiation, a byte at a time.                                *)
LEMMA FeedSubIs ==
  ASSUME T!feed
  PROVE  /\ mode = "normal" /\ Head(incoming) = 255 =>
              mode' = "iac" /\ put' = put /\ reply' = reply
         /\ mode = "iac" /\ Head(incoming) = 250 =>
              mode' = "sb" /\ put' = put /\ reply' = reply
         /\ mode = "sb" =>
              /\ mode' = "sbData" /\ put' = put /\ reply' = reply
              /\ sbOpt' = Head(incoming) /\ sbBuf' = <<>>
         /\ mode = "sbData" /\ Head(incoming) = 255 =>
              /\ mode' = "sbIAC" /\ put' = put /\ reply' = reply
              /\ sbOpt' = sbOpt /\ sbBuf' = sbBuf
         /\ mode = "sbData" /\ Head(incoming) # 255 =>
              /\ mode' = "sbData" /\ put' = put /\ reply' = reply
              /\ sbOpt' = sbOpt /\ sbBuf' = Append(sbBuf, Head(incoming))
         /\ mode = "sbIAC" /\ Head(incoming) = 255 =>
              /\ mode' = "sbData" /\ put' = put /\ reply' = reply /\ sbOpt' = sbOpt
         /\ mode = "sbIAC" /\ Head(incoming) = 240 =>
              /\ mode' = "normal" /\ put' = put /\ reply' = reply \o T!handleSB
<1> DEFINE b == Head(incoming)
<1>1. /\ mode = "normal" => T!FeedNormal(b)
      /\ mode = "iac" => T!FeedIAC(b)
      /\ mode = "sb" => T!FeedSB(b)
      /\ mode = "sbData" => T!FeedSBData(b)
      /\ mode = "sbIAC" => T!FeedSBIAC(b)
  BY FeedIs
<1> HIDE DEF b
<1>2. mode = "normal" /\ b = 255 => mode' = "iac" /\ put' = put /\ reply' = reply
  BY <1>1 DEF T!FeedNormal, T!IAC
<1>3. mode = "iac" /\ b = 250 => mode' = "sb" /\ put' = put /\ reply' = reply
  BY <1>1 DEF T!FeedIAC, T!IAC, T!WILL, T!WONT, T!DO, T!DONT, T!SB
<1>4. mode = "sb" => /\ mode' = "sbData" /\ put' = put /\ reply' = reply
                     /\ sbOpt' = b /\ sbBuf' = <<>>
  BY <1>1 DEF T!FeedSB
<1>5. mode = "sbData" /\ b = 255 => /\ mode' = "sbIAC" /\ put' = put /\ reply' = reply
                                   /\ sbOpt' = sbOpt /\ sbBuf' = sbBuf
  BY <1>1 DEF T!FeedSBData, T!IAC
<1>6. mode = "sbData" /\ b # 255 => /\ mode' = "sbData" /\ put' = put /\ reply' = reply
                                   /\ sbOpt' = sbOpt /\ sbBuf' = Append(sbBuf, b)
  BY <1>1 DEF T!FeedSBData, T!IAC
<1>7. mode = "sbIAC" /\ b = 255 => /\ mode' = "sbData" /\ put' = put /\ reply' = reply
                                  /\ sbOpt' = sbOpt
  BY <1>1 DEF T!FeedSBIAC, T!IAC, T!SE
<1>8. mode = "sbIAC" /\ b = 240 => /\ mode' = "normal" /\ put' = put
                                  /\ reply' = reply \o T!handleSB
  BY <1>1 DEF T!FeedSBIAC, T!IAC, T!SE
<1> QED
  BY <1>2, <1>3, <1>4, <1>5, <1>6, <1>7, <1>8 DEF b

LEMMA TTypeBytes ==
  /\ Head(<<255, 250, 24, 1, 255, 240>>) = 255 /\ Tail(<<255, 250, 24, 1, 255, 240>>) = <<250, 24, 1, 255, 240>>
  /\ Head(<<250, 24, 1, 255, 240>>) = 250 /\ Tail(<<250, 24, 1, 255, 240>>) = <<24, 1, 255, 240>>
  /\ Head(<<24, 1, 255, 240>>) = 24 /\ Tail(<<24, 1, 255, 240>>) = <<1, 255, 240>>
  /\ Head(<<1, 255, 240>>) = 1 /\ Tail(<<1, 255, 240>>) = <<255, 240>>
OBVIOUS

LEMMA LinemodeBytes ==
  /\ Head(<<255, 250, 34, 255, 255, 240, 255, 240>>) = 255 /\ Tail(<<255, 250, 34, 255, 255, 240, 255, 240>>) = <<250, 34, 255, 255, 240, 255, 240>>
  /\ Head(<<250, 34, 255, 255, 240, 255, 240>>) = 250 /\ Tail(<<250, 34, 255, 255, 240, 255, 240>>) = <<34, 255, 255, 240, 255, 240>>
  /\ Head(<<34, 255, 255, 240, 255, 240>>) = 34 /\ Tail(<<34, 255, 255, 240, 255, 240>>) = <<255, 255, 240, 255, 240>>
  /\ Head(<<255, 255, 240, 255, 240>>) = 255 /\ Tail(<<255, 255, 240, 255, 240>>) = <<255, 240, 255, 240>>
  /\ Head(<<255, 240, 255, 240>>) = 255 /\ Tail(<<255, 240, 255, 240>>) = <<240, 255, 240>>
  /\ Head(<<240, 255, 240>>) = 240 /\ Tail(<<240, 255, 240>>) = <<255, 240>>
OBVIOUS

LEMMA FeedInTType ==
  ASSUME NEW rest \in Seq(Nat), NEW due \in Seq(Nat), put \in Seq(Nat), reply \in Seq(Nat),
         InTType(incoming, mode, sbOpt, sbBuf, rest, due), T!feed
  PROVE  Fed(rest, due)
<1>0. rest = <<>> /\ due = <<24>> /\ incoming' = Tail(incoming)
  BY FeedIs DEF InTType
<1>1. CASE incoming = <<255, 250, 24, 1, 255, 240>> /\ mode = "normal"
  <2>1. Head(incoming) = 255 /\ Tail(incoming) = <<250, 24, 1, 255, 240>>
    BY <1>1, TTypeBytes
  <2>2. incoming' = <<250, 24, 1, 255, 240>> /\ mode' = "iac" /\ put' = put /\ reply' = reply
    BY <1>0, <1>1, <2>1, FeedSubIs
  <2>3. Position(incoming', mode', sbOpt', sbBuf', rest, due)
    BY <1>0, <2>2 DEF Position, InTType
  <2> QED
    BY <2>2, <2>3, FedQuiet
<1>2. CASE incoming = <<250, 24, 1, 255, 240>> /\ mode = "iac"
  <2>1. Head(incoming) = 250 /\ Tail(incoming) = <<24, 1, 255, 240>>
    BY <1>2, TTypeBytes
  <2>2. incoming' = <<24, 1, 255, 240>> /\ mode' = "sb" /\ put' = put /\ reply' = reply
    BY <1>0, <1>2, <2>1, FeedSubIs
  <2>3. Position(incoming', mode', sbOpt', sbBuf', rest, due)
    BY <1>0, <2>2 DEF Position, InTType
  <2> QED
    BY <2>2, <2>3, FedQuiet
<1>3. CASE incoming = <<24, 1, 255, 240>> /\ mode = "sb"
  <2>1. Head(incoming) = 24 /\ Tail(incoming) = <<1, 255, 240>>
    BY <1>3, TTypeBytes
  <2>2. incoming' = <<1, 255, 240>> /\ mode' = "sbData" /\ sbOpt' = 24 /\ sbBuf' = <<>> /\ put' = put /\ reply' = reply
    BY <1>0, <1>3, <2>1, FeedSubIs
  <2>3. Position(incoming', mode', sbOpt', sbBuf', rest, due)
    BY <1>0, <2>2 DEF Position, InTType
  <2> QED
    BY <2>2, <2>3, FedQuiet
<1>4. CASE incoming = <<1, 255, 240>> /\ mode = "sbData" /\ sbOpt = 24 /\ sbBuf = <<>>
  <2>1. Head(incoming) = 1 /\ Tail(incoming) = <<255, 240>>
    BY <1>4, TTypeBytes
  <2>2. incoming' = <<255, 240>> /\ mode' = "sbData" /\ sbOpt' = 24 /\ sbBuf' = <<1>> /\ put' = put /\ reply' = reply
    BY <1>0, <1>4, <2>1, FeedSubIs
  <2>3. Position(incoming', mode', sbOpt', sbBuf', rest, due)
    BY <1>0, <2>2 DEF Position, InTType
  <2> QED
    BY <2>2, <2>3, FedQuiet
<1>5. CASE incoming = <<255, 240>> /\ mode = "sbData" /\ sbOpt = 24 /\ sbBuf = <<1>>
  <2>1. Head(incoming) = 255 /\ Tail(incoming) = <<240>>
    BY <1>5, TwoBytes
  <2>2. incoming' = <<240>> /\ mode' = "sbIAC" /\ sbOpt' = 24 /\ sbBuf' = <<1>> /\ put' = put /\ reply' = reply
    BY <1>0, <1>5, <2>1, FeedSubIs
  <2>3. Position(incoming', mode', sbOpt', sbBuf', rest, due)
    BY <1>0, <2>2 DEF Position, InTType
  <2> QED
    BY <2>2, <2>3, FedQuiet
<1>6. CASE incoming = <<240>> /\ mode = "sbIAC" /\ sbOpt = 24 /\ sbBuf = <<1>>
  <2>1. Head(incoming) = 240 /\ Tail(incoming) = <<>>
    BY <1>6, OneByte
  <2>2. incoming' = <<>> /\ mode' = "normal" /\ put' = put /\ reply' = reply \o T!handleSB
    BY <1>0, <1>6, <2>1, FeedSubIs
  <2>3. T!handleSB = <<255, 250, 24, 0>> \o <<120>> \o <<255, 240>>
    <3>1. T!escapeIAC(<<120>>) = <<120>>
      BY EscapedOne DEF Doubled
    <3>2. sbOpt = 24 /\ Len(sbBuf) >= 1 /\ Head(sbBuf) = 1
      BY <1>6, OneByte
    <3> QED
      BY <3>1, <3>2 DEF T!handleSB, T!TTYPE, T!SEND, T!IAC, T!SB, T!SE, T!IS
  <2>4. Answers(T!handleSB, <<24>>)
    BY <2>3, AnswersTType
  <2>5. Position(incoming', mode', sbOpt', sbBuf', <<>>, <<>>)
    BY <2>2 DEF Position, Between
  <2>6. Fed(<<>>, <<24>>)
    BY <2>2, <2>4, <2>5, FedAnswer
  <2> QED
    BY <1>0, <2>6
<1> QED
  BY <1>1, <1>2, <1>3, <1>4, <1>5, <1>6 DEF InTType

LEMMA FeedInLinemode ==
  ASSUME NEW rest \in Seq(Nat), NEW due \in Seq(Nat), put \in Seq(Nat), reply \in Seq(Nat),
         InLinemode(incoming, mode, sbOpt, rest, due), T!feed
  PROVE  Fed(rest, due)
<1>0. rest = <<>> /\ due = <<>> /\ incoming' = Tail(incoming)
  BY FeedIs DEF InLinemode
<1>1. CASE incoming = <<255, 250, 34, 255, 255, 240, 255, 240>> /\ mode = "normal"
  <2>1. Head(incoming) = 255 /\ Tail(incoming) = <<250, 34, 255, 255, 240, 255, 240>>
    BY <1>1, LinemodeBytes
  <2>2. incoming' = <<250, 34, 255, 255, 240, 255, 240>> /\ mode' = "iac" /\ put' = put /\ reply' = reply
    BY <1>0, <1>1, <2>1, FeedSubIs
  <2>3. Position(incoming', mode', sbOpt', sbBuf', rest, due)
    BY <1>0, <2>2 DEF Position, InLinemode
  <2> QED
    BY <2>2, <2>3, FedQuiet
<1>2. CASE incoming = <<250, 34, 255, 255, 240, 255, 240>> /\ mode = "iac"
  <2>1. Head(incoming) = 250 /\ Tail(incoming) = <<34, 255, 255, 240, 255, 240>>
    BY <1>2, LinemodeBytes
  <2>2. incoming' = <<34, 255, 255, 240, 255, 240>> /\ mode' = "sb" /\ put' = put /\ reply' = reply
    BY <1>0, <1>2, <2>1, FeedSubIs
  <2>3. Position(incoming', mode', sbOpt', sbBuf', rest, due)
    BY <1>0, <2>2 DEF Position, InLinemode
  <2> QED
    BY <2>2, <2>3, FedQuiet
<1>3. CASE incoming = <<34, 255, 255, 240, 255, 240>> /\ mode = "sb"
  <2>1. Head(incoming) = 34 /\ Tail(incoming) = <<255, 255, 240, 255, 240>>
    BY <1>3, LinemodeBytes
  <2>2. incoming' = <<255, 255, 240, 255, 240>> /\ mode' = "sbData" /\ sbOpt' = 34 /\ put' = put /\ reply' = reply
    BY <1>0, <1>3, <2>1, FeedSubIs
  <2>3. Position(incoming', mode', sbOpt', sbBuf', rest, due)
    BY <1>0, <2>2 DEF Position, InLinemode
  <2> QED
    BY <2>2, <2>3, FedQuiet
<1>4. CASE incoming = <<255, 255, 240, 255, 240>> /\ mode = "sbData" /\ sbOpt = 34
  <2>1. Head(incoming) = 255 /\ Tail(incoming) = <<255, 240, 255, 240>>
    BY <1>4, LinemodeBytes
  <2>2. incoming' = <<255, 240, 255, 240>> /\ mode' = "sbIAC" /\ sbOpt' = 34 /\ put' = put /\ reply' = reply
    BY <1>0, <1>4, <2>1, FeedSubIs
  <2>3. Position(incoming', mode', sbOpt', sbBuf', rest, due)
    BY <1>0, <2>2 DEF Position, InLinemode
  <2> QED
    BY <2>2, <2>3, FedQuiet
<1>5. CASE incoming = <<255, 240, 255, 240>> /\ mode = "sbIAC" /\ sbOpt = 34
  <2>1. Head(incoming) = 255 /\ Tail(incoming) = <<240, 255, 240>>
    BY <1>5, LinemodeBytes
  <2>2. incoming' = <<240, 255, 240>> /\ mode' = "sbData" /\ sbOpt' = 34 /\ put' = put /\ reply' = reply
    BY <1>0, <1>5, <2>1, FeedSubIs
  <2>3. Position(incoming', mode', sbOpt', sbBuf', rest, due)
    BY <1>0, <2>2 DEF Position, InLinemode
  <2> QED
    BY <2>2, <2>3, FedQuiet
<1>6. CASE incoming = <<240, 255, 240>> /\ mode = "sbData" /\ sbOpt = 34
  <2>1. Head(incoming) = 240 /\ Tail(incoming) = <<255, 240>>
    BY <1>6, LinemodeBytes
  <2>2. incoming' = <<255, 240>> /\ mode' = "sbData" /\ sbOpt' = 34 /\ put' = put /\ reply' = reply
    BY <1>0, <1>6, <2>1, FeedSubIs
  <2>3. Position(incoming', mode', sbOpt', sbBuf', rest, due)
    BY <1>0, <2>2 DEF Position, InLinemode
  <2> QED
    BY <2>2, <2>3, FedQuiet
<1>7. CASE incoming = <<255, 240>> /\ mode = "sbData" /\ sbOpt = 34
  <2>1. Head(incoming) = 255 /\ Tail(incoming) = <<240>>
    BY <1>7, TwoBytes
  <2>2. incoming' = <<240>> /\ mode' = "sbIAC" /\ sbOpt' = 34 /\ put' = put /\ reply' = reply
    BY <1>0, <1>7, <2>1, FeedSubIs
  <2>3. Position(incoming', mode', sbOpt', sbBuf', rest, due)
    BY <1>0, <2>2 DEF Position, InLinemode
  <2> QED
    BY <2>2, <2>3, FedQuiet
<1>8. CASE incoming = <<240>> /\ mode = "sbIAC" /\ sbOpt = 34
  <2>1. Head(incoming) = 240 /\ Tail(incoming) = <<>>
    BY <1>8, OneByte
  <2>2. incoming' = <<>> /\ mode' = "normal" /\ put' = put /\ reply' = reply \o T!handleSB
    BY <1>0, <1>8, <2>1, FeedSubIs
  <2>3. reply' = reply
    <3>1. T!handleSB = <<>>
      BY <1>8 DEF T!handleSB, T!TTYPE
    <3> QED
      BY <2>2, <3>1
  <2>4. Position(incoming', mode', sbOpt', sbBuf', rest, due)
    BY <1>0, <2>2 DEF Position, Between
  <2> QED
    BY <2>2, <2>3, <2>4, FedQuiet
<1> QED
  BY <1>1, <1>2, <1>3, <1>4, <1>5, <1>6, <1>7, <1>8 DEF InLinemode

LEMMA HandleWillAnswers ==
  ASSUME NEW o \in Nat
  PROVE  Answers(T!handleWill(o), <<o>>)
<1>1. PICK x \in {251, 252, 253, 254} : T!handleWill(o) = <<255, x, o>>
  BY DEF T!handleWill, T!IAC, T!DO, T!DONT
<1> QED
  BY <1>1, AnswersOption

LEMMA HandleDoAnswers ==
  ASSUME NEW o \in Nat, size \in Widths
  PROVE  Answers(T!handleDo(o), <<o>>)
<1> DEFINE x == IF o \in {T!SGA, T!TTYPE, T!NAWS, T!BINARY} THEN 251 ELSE 252
           y == IF o = T!NAWS THEN T!buildNAWS(size) ELSE <<>>
<1>1. x \in {251, 252, 253, 254}
  OBVIOUS
<1>2. T!handleDo(o) = <<255, x, o>> \o y
  BY DEF T!handleDo, T!IAC, T!WILL, T!WONT
<1>3. Answers(y, <<>>)
  BY AnswersNAWS, AnswersNothing
<1> HIDE DEF x, y
<1>4. Answers(<<255, x, o>>, <<o>>)
  BY <1>1, AnswersOption
<1>5. Answers(<<255, x, o>> \o y, <<o>> \o <<>>)
  BY <1>3, <1>4, AnswersBoth
<1>6. <<o>> \o <<>> = <<o>>
  OBVIOUS
<1> QED
  BY <1>2, <1>5, <1>6

LEMMA FeedInOption ==
  ASSUME NEW rest \in Seq(Nat), NEW due \in Seq(Nat), put \in Seq(Nat), reply \in Seq(Nat),
         size \in Widths, InOption(incoming, mode, rest, due), T!feed
  PROVE  Fed(rest, due)
<1>0. rest = <<>> /\ incoming' = Tail(incoming)
  BY FeedIs DEF InOption
<1>1. PICK c \in {251, 252, 253, 254}, o \in Options : AtOption(c, o, incoming, mode, due)
  BY DEF InOption
<1>6. due = IF c \in {251, 253} THEN <<o>> ELSE <<>>
  BY <1>1 DEF AtOption
<1>2. o \in Nat /\ c \in Nat
  BY TelnetAssumption
<1>3. CASE incoming = <<255, c, o>> /\ mode = "normal"
  <2>1. Head(incoming) = 255 /\ Tail(incoming) = <<c, o>>
    BY <1>2, <1>3, ThreeBytesTail
  <2>2. incoming' = <<c, o>> /\ mode' = "iac" /\ put' = put /\ reply' = reply
    BY <1>0, <1>3, <2>1, FeedSubIs
  <2>3. InOption(incoming', mode', rest, due)
    <3>1. AtOption(c, o, incoming', mode', due)
      BY <1>6, <2>2 DEF AtOption
    <3> QED
      BY <1>0, <3>1 DEF InOption
  <2>4. Position(incoming', mode', sbOpt', sbBuf', rest, due)
    BY <2>3 DEF Position
  <2> QED
    BY <2>2, <2>4, FedQuiet
<1>4. CASE incoming = <<c, o>> /\ mode = "iac"
  <2>1. Head(incoming) = c /\ Tail(incoming) = <<o>>
    BY <1>2, <1>4, TwoBytes
  <2>2. T!FeedIAC(c) /\ incoming' = <<o>>
    BY <1>4, <2>1, FeedIs
  <2>3. mode' = Asking(c) /\ put' = put /\ reply' = reply
    BY <2>2 DEF Asking, T!FeedIAC, T!IAC, T!WILL, T!WONT, T!DO, T!DONT, T!SB
  <2>4. InOption(incoming', mode', rest, due)
    <3>1. AtOption(c, o, incoming', mode', due)
      BY <1>6, <2>2, <2>3 DEF AtOption
    <3> QED
      BY <1>0, <3>1 DEF InOption
  <2>5. Position(incoming', mode', sbOpt', sbBuf', rest, due)
    BY <2>4 DEF Position
  <2> QED
    BY <2>3, <2>5, FedQuiet
<1>5. CASE incoming = <<o>> /\ mode = Asking(c)
  <2>1. Head(incoming) = o /\ Tail(incoming) = <<>>
    BY <1>2, <1>5, OneByte
  <2>2. mode \in {"will", "wont", "do", "dont"}
    BY <1>5 DEF Asking
  <2>3. T!FeedOption(o) /\ incoming' = <<>>
    BY <2>1, <2>2, FeedIs
  <2>4. mode' = "normal" /\ put' = put
    BY <2>3 DEF T!FeedOption
  <2>5. Position(incoming', mode', sbOpt', sbBuf', <<>>, <<>>)
    BY <2>3, <2>4 DEF Position, Between
  <2>6. CASE c = 251
    <3>1. reply' = reply \o T!handleWill(o)
      BY <1>5, <2>3, <2>6 DEF T!FeedOption, Asking
    <3>2. due = <<o>> /\ Answers(T!handleWill(o), <<o>>)
      BY <1>6, <1>2, <2>6, HandleWillAnswers
    <3> QED
      BY <1>0, <2>4, <2>5, <3>1, <3>2, FedAnswer
  <2>7. CASE c = 253
    <3>1. reply' = reply \o T!handleDo(o)
      BY <1>5, <2>3, <2>7 DEF T!FeedOption, Asking
    <3>2. due = <<o>> /\ Answers(T!handleDo(o), <<o>>)
      BY <1>6, <1>2, <2>7, HandleDoAnswers
    <3> QED
      BY <1>0, <2>4, <2>5, <3>1, <3>2, FedAnswer
  <2>8. CASE c \in {252, 254}
    <3>1. reply' = reply \o <<>>
      BY <1>5, <2>3, <2>8 DEF T!FeedOption, Asking
    <3>2. due = <<>> /\ reply \o <<>> = reply
      BY <1>6, <2>8
    <3> QED
      BY <1>0, <2>4, <2>5, <3>1, <3>2, FedQuiet
  <2> QED
    BY <2>6, <2>7, <2>8
<1> QED
  BY <1>1, <1>3, <1>4, <1>5 DEF AtOption

LEMMA FeedStep ==
  ASSUME NEW rest \in Seq(Nat), NEW due \in Seq(Nat), put \in Seq(Nat), reply \in Seq(Nat),
         size \in Widths, Position(incoming, mode, sbOpt, sbBuf, rest, due), T!feed
  PROVE  Fed(rest, due)
<1>1. ~Between(incoming, mode, rest, due)
  BY FeedIs DEF Between
<1> QED
  BY <1>1, FeedInText, FeedInOption, FeedInNop, FeedInTType, FeedInLinemode DEF Position

-----------------------------------------------------------------------------
(* The steps                                                                *)

LEMMA TelnetInit ==
  ASSUME T!Init
  PROVE  TelnetInv
<1>1. /\ incoming = <<>> /\ meant = <<>> /\ asked = <<>> /\ mode = "normal" /\ put = <<>>
      /\ reply = <<>> /\ size \in Widths /\ wire = <<>> /\ typed = <<>>
  BY DEF T!Init
<1>2. T!Decoded = T!Start
  BY <1>1, DecodingEmpty DEF T!Decoded
<1>3. T!Decoded \in Idle /\ T!Decoded.data = typed /\ T!Decoded.opts = <<>>
  <2>1. T!Start.data = <<>> /\ T!Start.opts = <<>>
    BY DEF T!Start
  <2> QED
    BY <1>1, <1>2, <2>1, StartIsIdle
<1>4. Position(incoming, mode, sbOpt, sbBuf, <<>>, <<>>)
  BY <1>1 DEF Position, Between
<1>5. Answers(reply, <<>>)
  BY <1>1, AnswersNothing
<1>6. /\ <<>> \in Seq(Nat) /\ put \o <<>> = meant
      /\ (T!Decoded.opts \o <<>>) \o <<>> = asked
  BY <1>1, <1>3
<1> QED
  BY <1>1, <1>3, <1>4, <1>5, <1>6 DEF TelnetInv

LEMMA EmptyIsSeq ==
  <<>> \in Seq(Nat)
OBVIOUS

(* Nothing to come, nothing due.                                              *)
LEMMA Rested ==
  ASSUME NEW md, NEW so, NEW sb, NEW rest, NEW due, Position(<<>>, md, so, sb, rest, due)
  PROVE  md = "normal" /\ rest = <<>> /\ due = <<>>
BY DEF Position, Between, InText, InOption, AtOption, InNop, InTType, InLinemode

(* The peer sends the next item.                                              *)
LEMMA TelnetItem ==
  ASSUME TelnetInv, NEW bs, NEW data \in Seq(Nat), NEW opts \in Seq(Nat),
         T!Item(bs, data, opts), Position(bs, "normal", sbOpt, sbBuf, data, opts)
  PROVE  TelnetInv'
<1>1. PICK rest \in Seq(Nat), due \in Seq(Nat), said \in Seq(Nat) :
        /\ Position(incoming, mode, sbOpt, sbBuf, rest, due)
        /\ put \o rest = meant /\ Answers(reply, said)
        /\ (T!Decoded.opts \o said) \o due = asked
  BY DEF TelnetInv
<1>2. /\ incoming = <<>> /\ incoming' = bs /\ meant' = meant \o data /\ asked' = asked \o opts
      /\ mode' = mode /\ sbOpt' = sbOpt /\ sbBuf' = sbBuf /\ put' = put /\ reply' = reply
      /\ size' = size /\ wire' = wire /\ typed' = typed
  BY DEF T!Item
<1>3. mode = "normal" /\ rest = <<>> /\ due = <<>>
  BY <1>1, <1>2, Rested
<1>4. T!Decoded' = T!Decoded
  BY <1>2 DEF T!Decoded
<1>5. /\ put \in Seq(Nat) /\ wire \in Seq(Nat) /\ typed \in Seq(Nat) /\ size \in Widths
      /\ T!Decoded \in Idle /\ T!Decoded.data = typed
  BY DEF TelnetInv
<1>6. Position(incoming', mode', sbOpt', sbBuf', data, opts)
  BY <1>2, <1>3
<1>7. put' \o data = meant'
  BY <1>1, <1>2, <1>3, <1>5
<1>8. (T!Decoded'.opts \o said) \o opts = asked'
  <2>1. T!Decoded.opts \in Seq(Nat)
    BY <1>5 DEF Idle, Decoders
  <2> DEFINE u == T!Decoded.opts
  <2> HIDE DEF u
  <2>2. (u \o said) \o <<>> = asked
    BY <1>1, <1>3 DEF u
  <2>3. (u \o said) \o <<>> = u \o said
    BY <2>1 DEF u
  <2> QED
    BY <1>2, <1>4, <2>2, <2>3 DEF u
<1>9. Answers(reply', said)
  BY <1>1, <1>2
<1>10. /\ put' \in Seq(Nat) /\ wire' \in Seq(Nat) /\ typed' \in Seq(Nat) /\ size' \in Widths
       /\ T!Decoded' \in Idle /\ T!Decoded'.data = typed'
  BY <1>2, <1>4, <1>5
<1> QED
  BY <1>6, <1>7, <1>8, <1>9, <1>10 DEF TelnetInv

LEMMA TelnetPeer ==
  ASSUME TelnetInv, T!PeerSends
  PROVE  TelnetInv'
<1>1. ASSUME NEW b \in Bytes, T!Item(T!escapeIAC(<<b>>), <<b>>, <<>>)
      PROVE  TelnetInv'
  <2>0. b \in Nat
    BY TelnetAssumption
  <2>1. T!escapeIAC(<<b>>) = Doubled(b)
    BY <2>0, EscapedOne
  <2>2. InText(Doubled(b), "normal", <<b>>, <<>>)
    BY <2>0 DEF Doubled, InText
  <2>3. Position(Doubled(b), "normal", sbOpt, sbBuf, <<b>>, <<>>)
    BY <2>2 DEF Position
  <2>4. <<b>> \in Seq(Nat) /\ <<>> \in Seq(Nat)
    BY <2>0
  <2> QED
    BY <1>1, <2>1, <2>3, <2>4, TelnetItem
<1>2. ASSUME NEW c \in {251, 252, 253, 254}, NEW o \in Options,
             T!Item(<<255, c, o>>, <<>>, IF c \in {251, 253} THEN <<o>> ELSE <<>>)
      PROVE  TelnetInv'
  <2> DEFINE u == IF c \in {251, 253} THEN <<o>> ELSE <<>>
  <2>1. AtOption(c, o, <<255, c, o>>, "normal", u)
    BY DEF AtOption
  <2>2. u \in Seq(Nat) /\ <<>> \in Seq(Nat)
    BY TelnetAssumption
  <2> HIDE DEF u
  <2>3. InOption(<<255, c, o>>, "normal", <<>>, u)
    BY <2>1 DEF InOption
  <2>4. Position(<<255, c, o>>, "normal", sbOpt, sbBuf, <<>>, u)
    BY <2>3 DEF Position
  <2>5. T!Item(<<255, c, o>>, <<>>, u)
    BY <1>2 DEF u
  <2> QED
    BY <2>2, <2>4, <2>5, TelnetItem
<1>3. ASSUME T!Item(<<255, 241>>, <<>>, <<>>) PROVE TelnetInv'
  <2>1. Position(<<255, 241>>, "normal", sbOpt, sbBuf, <<>>, <<>>)
    BY DEF Position, InNop
  <2> QED
    BY <1>3, <2>1, TelnetItem, EmptyIsSeq
<1>4. ASSUME T!Item(<<255, 250, 24, 1, 255, 240>>, <<>>, << 24 >>) PROVE TelnetInv'
  <2>1. Position(<<255, 250, 24, 1, 255, 240>>, "normal", sbOpt, sbBuf, <<>>, <<24>>)
    BY DEF Position, InTType
  <2> DEFINE bs == <<255, 250, 24, 1, 255, 240>>
             opts == <<24>>
  <2>2. /\ Position(bs, "normal", sbOpt, sbBuf, <<>>, opts) /\ T!Item(bs, <<>>, opts)
        /\ opts \in Seq(Nat)
    BY <1>4, <2>1
  <2> HIDE DEF bs, opts
  <2> QED
    BY <2>2, TelnetItem, EmptyIsSeq
<1>5. ASSUME T!Item(<<255, 250, 34, 255, 255, 240, 255, 240>>, <<>>, <<>>) PROVE TelnetInv'
  <2>1. Position(<<255, 250, 34, 255, 255, 240, 255, 240>>, "normal", sbOpt, sbBuf, <<>>, <<>>)
    BY DEF Position, InLinemode
  <2> DEFINE bs == <<255, 250, 34, 255, 255, 240, 255, 240>>
  <2>2. Position(bs, "normal", sbOpt, sbBuf, <<>>, <<>>) /\ T!Item(bs, <<>>, <<>>)
    BY <1>5, <2>1
  <2> HIDE DEF bs
  <2> QED
    BY <2>2, TelnetItem, EmptyIsSeq
<1>6. ASSUME NEW c \in {T!WILL, T!DO}, NEW o \in Options, T!Item(<<T!IAC, c, o>>, <<>>, <<o>>)
      PROVE  TelnetInv'
  <2>1. c \in {251, 253} /\ T!Item(<<255, c, o>>, <<>>, <<o>>)
    BY <1>6 DEF T!IAC, T!WILL, T!DO
  <2>2. c \in {251, 252, 253, 254} /\ (IF c \in {251, 253} THEN <<o>> ELSE <<>>) = <<o>>
    BY <2>1
  <2>3. T!Item(<<255, c, o>>, <<>>, IF c \in {251, 253} THEN <<o>> ELSE <<>>)
    BY <2>1, <2>2
  <2> QED
    BY <1>2, <2>2, <2>3
<1>7. ASSUME NEW c \in {T!WONT, T!DONT}, NEW o \in Options, T!Item(<<T!IAC, c, o>>, <<>>, <<>>)
      PROVE  TelnetInv'
  <2>1. c \in {252, 254} /\ T!Item(<<255, c, o>>, <<>>, <<>>)
    BY <1>7 DEF T!IAC, T!WONT, T!DONT
  <2>2. c \in {251, 252, 253, 254} /\ (IF c \in {251, 253} THEN <<o>> ELSE <<>>) = <<>>
    BY <2>1
  <2>3. T!Item(<<255, c, o>>, <<>>, IF c \in {251, 253} THEN <<o>> ELSE <<>>)
    BY <2>1, <2>2
  <2> QED
    BY <1>2, <2>2, <2>3
<1>8. ASSUME T!Item(<<T!IAC, T!NOP>>, <<>>, <<>>) PROVE TelnetInv'
  BY <1>3, <1>8 DEF T!IAC, T!NOP
<1>9. ASSUME T!Item(<<T!IAC, T!SB, T!TTYPE, T!SEND, T!IAC, T!SE>>, <<>>, <<T!TTYPE>>)
       PROVE  TelnetInv'
  BY <1>4, <1>9 DEF T!IAC, T!SB, T!TTYPE, T!SEND, T!SE
<1>10. ASSUME T!Item(<<T!IAC, T!SB, T!LINEMODE, T!IAC, T!IAC, T!SE, T!IAC, T!SE>>, <<>>, <<>>)
       PROVE  TelnetInv'
  BY <1>5, <1>10 DEF T!IAC, T!SB, T!LINEMODE, T!SE
<1> QED
  BY <1>1, <1>6, <1>7, <1>8, <1>9, <1>10 DEF T!PeerSends

LEMMA TelnetFeed ==
  ASSUME TelnetInv, T!feed
  PROVE  TelnetInv'
<1>1. PICK rest \in Seq(Nat), due \in Seq(Nat), said \in Seq(Nat) :
        /\ Position(incoming, mode, sbOpt, sbBuf, rest, due)
        /\ put \o rest = meant /\ Answers(reply, said)
        /\ (T!Decoded.opts \o said) \o due = asked
  BY DEF TelnetInv
<1>2. /\ put \in Seq(Nat) /\ wire \in Seq(Nat) /\ typed \in Seq(Nat) /\ size \in Widths
      /\ T!Decoded \in Idle /\ T!Decoded.data = typed
  BY DEF TelnetInv
<1>3. meant' = meant /\ asked' = asked /\ size' = size /\ wire' = wire /\ typed' = typed
  BY FeedIs
<1>4. T!Decoded' = T!Decoded
  BY <1>3 DEF T!Decoded
<1>5. reply \in Seq(Nat)
  BY <1>1 DEF Answers
<1>6. Fed(rest, due)
  BY <1>1, <1>2, <1>5, FeedStep
<1>7. PICK r \in Seq(Nat), u \in Seq(Nat), x \in Seq(Nat), more \in Seq(Nat) :
        /\ Position(incoming', mode', sbOpt', sbBuf', r, u)
        /\ put' \in Seq(Nat) /\ put' \o r = put \o rest
        /\ reply' = reply \o x /\ Answers(x, more) /\ more \o u = due
  BY <1>6 DEF Fed
<1>8. Answers(reply', said \o more)
  BY <1>1, <1>7, AnswersBoth
<1>9. said \o more \in Seq(Nat)
  BY <1>8 DEF Answers
<1>10. (T!Decoded.opts \o (said \o more)) \o u = asked
  <2> DEFINE v == T!Decoded.opts
  <2>1. v \in Seq(Nat)
    BY <1>2 DEF Idle, Decoders
  <2> HIDE DEF v
  <2>2. AllAnswered(v, said, more \o u, asked)
    BY <1>1, <1>7 DEF AllAnswered, v
  <2>3. AllAnswered(v, said \o more, u, asked)
    BY <2>1, <2>2, AnsweredMore
  <2> QED
    BY <2>3 DEF AllAnswered, v
<1>11. /\ put' \in Seq(Nat) /\ wire' \in Seq(Nat) /\ typed' \in Seq(Nat) /\ size' \in Widths
       /\ T!Decoded' \in Idle /\ T!Decoded'.data = typed'
  BY <1>2, <1>3, <1>4, <1>7
<1>12. /\ Position(incoming', mode', sbOpt', sbBuf', r, u) /\ put' \o r = meant'
       /\ (T!Decoded'.opts \o (said \o more)) \o u = asked'
  BY <1>1, <1>3, <1>4, <1>7, <1>10
<1> QED
  BY <1>8, <1>9, <1>11, <1>12 DEF TelnetInv

(* What the peer has decoded after the bytes r.                               *)
LEMMA DecodedMore ==
  ASSUME wire \in Seq(Nat), NEW r \in Seq(Nat), wire' = wire \o r
  PROVE  T!Decoded' = T!Decoding(T!Decoded, r) /\ wire' \in Seq(Nat)
<1>1. T!Decoding(T!Start, wire \o r) = T!Decoding(T!Decoding(T!Start, wire), r)
  BY DecodingConcat
<1>2. T!Decoded' = T!Decoding(T!Start, wire')
  BY DEF T!Decoded
<1> QED
  BY <1>1, <1>2 DEF T!Decoded

LEMMA TelnetReply ==
  ASSUME TelnetInv, T!WriteReply
  PROVE  TelnetInv'
<1>1. PICK rest \in Seq(Nat), due \in Seq(Nat), said \in Seq(Nat) :
        /\ Position(incoming, mode, sbOpt, sbBuf, rest, due)
        /\ put \o rest = meant /\ Answers(reply, said)
        /\ (T!Decoded.opts \o said) \o due = asked
  BY DEF TelnetInv
<1>2. /\ put \in Seq(Nat) /\ wire \in Seq(Nat) /\ typed \in Seq(Nat) /\ size \in Widths
      /\ T!Decoded \in Idle /\ T!Decoded.data = typed
  BY DEF TelnetInv
<1>3. /\ wire' = wire \o reply /\ reply' = <<>>
      /\ incoming' = incoming /\ meant' = meant /\ asked' = asked /\ mode' = mode
      /\ sbOpt' = sbOpt /\ sbBuf' = sbBuf /\ put' = put /\ size' = size /\ typed' = typed
  BY DEF T!WriteReply
<1>4. reply \in Seq(Nat)
  BY <1>1 DEF Answers
<1>5. T!Decoded' = T!Decoding(T!Decoded, reply) /\ wire' \in Seq(Nat)
  BY <1>2, <1>3, <1>4, DecodedMore
<1>6. /\ T!Decoded' \in Idle /\ T!Decoded'.data = T!Decoded.data
      /\ T!Decoded'.opts = T!Decoded.opts \o said
  <2>1. PICK d \in Idle : d = T!Decoded
    BY <1>2
  <2>2. /\ T!Decoding(d, reply) \in Idle /\ T!Decoding(d, reply).data = d.data
        /\ T!Decoding(d, reply).opts = d.opts \o said
    BY <1>1 DEF Answers
  <2> QED
    BY <1>5, <2>1, <2>2
<1>7. Answers(reply', <<>>)
  BY <1>3, AnswersNothing
<1>8. (T!Decoded'.opts \o <<>>) \o due = asked'
  <2> DEFINE v == T!Decoded'.opts
  <2>1. v \in Seq(Nat)
    BY <1>6 DEF Idle, Decoders
  <2>2. v \o due = asked
    BY <1>1, <1>6
  <2> HIDE DEF v
  <2>3. v \o <<>> = v
    BY <2>1
  <2> QED
    BY <1>3, <2>2, <2>3 DEF v
<1>9. /\ put' \in Seq(Nat) /\ wire' \in Seq(Nat) /\ typed' \in Seq(Nat) /\ size' \in Widths
      /\ T!Decoded' \in Idle /\ T!Decoded'.data = typed'
  BY <1>2, <1>3, <1>5, <1>6
<1>10. /\ Position(incoming', mode', sbOpt', sbBuf', rest, due) /\ put' \o rest = meant'
  BY <1>1, <1>3
<1> QED
  BY <1>7, <1>8, <1>9, <1>10, EmptyIsSeq DEF TelnetInv

(* A frame among the replies disturbs nothing.                                *)
LEMMA TelnetResize ==
  ASSUME TelnetInv, NEW n \in Widths, T!SendNAWS(n)
  PROVE  TelnetInv'
<1>1. PICK rest \in Seq(Nat), due \in Seq(Nat), said \in Seq(Nat) :
        /\ Position(incoming, mode, sbOpt, sbBuf, rest, due)
        /\ put \o rest = meant /\ Answers(reply, said)
        /\ (T!Decoded.opts \o said) \o due = asked
  BY DEF TelnetInv
<1>2. /\ put \in Seq(Nat) /\ wire \in Seq(Nat) /\ typed \in Seq(Nat) /\ size \in Widths
      /\ T!Decoded \in Idle /\ T!Decoded.data = typed
  BY DEF TelnetInv
<1>3. /\ wire' = wire \o T!buildNAWS(n) /\ size' = n /\ reply' = reply
      /\ incoming' = incoming /\ meant' = meant /\ asked' = asked /\ mode' = mode
      /\ sbOpt' = sbOpt /\ sbBuf' = sbBuf /\ put' = put /\ typed' = typed
  BY DEF T!SendNAWS
<1>4. Answers(T!buildNAWS(n), <<>>)
  BY AnswersNAWS
<1> DEFINE r == T!buildNAWS(n)
<1> HIDE DEF r
<1>5. r \in Seq(Nat)
  BY <1>4 DEF Answers, r
<1>6. T!Decoded' = T!Decoding(T!Decoded, r) /\ wire' \in Seq(Nat)
  BY <1>2, <1>3, <1>5, DecodedMore DEF r
<1>7. /\ T!Decoded' \in Idle /\ T!Decoded'.data = T!Decoded.data
      /\ T!Decoded'.opts = T!Decoded.opts
  <2>1. PICK d \in Idle : d = T!Decoded
    BY <1>2
  <2>2. /\ T!Decoding(d, r) \in Idle /\ T!Decoding(d, r).data = d.data
        /\ T!Decoding(d, r).opts = d.opts \o <<>>
    BY <1>4 DEF Answers, r
  <2>3. d.opts \o <<>> = d.opts
    <3>1. d.opts \in Seq(Nat)
      BY DEF Idle, Decoders
    <3> QED
      BY <3>1
  <2> QED
    BY <1>6, <2>1, <2>2, <2>3
<1>8. /\ put' \in Seq(Nat) /\ wire' \in Seq(Nat) /\ typed' \in Seq(Nat) /\ size' \in Widths
      /\ T!Decoded' \in Idle /\ T!Decoded'.data = typed'
  BY <1>2, <1>3, <1>6, <1>7
<1>9. /\ Position(incoming', mode', sbOpt', sbBuf', rest, due) /\ put' \o rest = meant'
      /\ Answers(reply', said) /\ (T!Decoded'.opts \o said) \o due = asked'
  BY <1>1, <1>3, <1>7
<1> QED
  BY <1>8, <1>9 DEF TelnetInv

LEMMA TelnetWrite ==
  ASSUME TelnetInv, NEW b \in Bytes, T!Write(b)
  PROVE  TelnetInv'
<1>1. PICK rest \in Seq(Nat), due \in Seq(Nat), said \in Seq(Nat) :
        /\ Position(incoming, mode, sbOpt, sbBuf, rest, due)
        /\ put \o rest = meant /\ Answers(reply, said)
        /\ (T!Decoded.opts \o said) \o due = asked
  BY DEF TelnetInv
<1>2. /\ put \in Seq(Nat) /\ wire \in Seq(Nat) /\ typed \in Seq(Nat) /\ size \in Widths
      /\ T!Decoded \in Idle /\ T!Decoded.data = typed
  BY DEF TelnetInv
<1>3. /\ wire' = wire \o T!escapeIAC(<<b>>) /\ typed' = Append(typed, b) /\ reply' = reply
      /\ incoming' = incoming /\ meant' = meant /\ asked' = asked /\ mode' = mode
      /\ sbOpt' = sbOpt /\ sbBuf' = sbBuf /\ put' = put /\ size' = size
  BY DEF T!Write
<1>4. b \in Nat
  BY TelnetAssumption
<1>5. T!escapeIAC(<<b>>) = Doubled(b) /\ Doubled(b) \in Seq(Nat)
  <2>1. Doubled(b) \in Seq(Nat)
    BY <1>4 DEF Doubled
  <2> QED
    BY <1>4, <2>1, EscapedOne
<1>6. T!Decoded' = T!Decoding(T!Decoded, Doubled(b)) /\ wire' \in Seq(Nat)
  <2> DEFINE r == Doubled(b)
  <2>1. wire \in Seq(Nat) /\ r \in Seq(Nat) /\ wire' = wire \o r
    BY <1>2, <1>3, <1>5
  <2> HIDE DEF r
  <2>2. T!Decoded' = T!Decoding(T!Decoded, r) /\ wire' \in Seq(Nat)
    BY <2>1, DecodedMore
  <2> QED
    BY <2>2 DEF r
<1>7. /\ T!Decoded' \in Idle /\ T!Decoded'.data = Append(T!Decoded.data, b)
      /\ T!Decoded'.opts = T!Decoded.opts
  <2>1. PICK d \in Idle : d = T!Decoded
    BY <1>2
  <2> DEFINE t == Append(d.data, b)
  <2>2. T!Decoding(d, Doubled(b)) = [d EXCEPT !.data = t]
    BY <1>4, DecodesText
  <2>3. d \in Decoders /\ d.m = "data" /\ d.data \in Seq(Nat)
    BY DEF Idle, Decoders
  <2>4. t \in Seq(Nat)
    BY <1>4, <2>3
  <2> HIDE DEF t
  <2>5. /\ [d EXCEPT !.data = t] \in Decoders /\ [d EXCEPT !.data = t].m = "data"
        /\ [d EXCEPT !.data = t].data = t /\ [d EXCEPT !.data = t].opts = d.opts
    BY <2>3, <2>4 DEF Decoders
  <2> QED
    BY <1>6, <2>1, <2>2, <2>5 DEF Idle, t
<1>8. /\ put' \in Seq(Nat) /\ wire' \in Seq(Nat) /\ typed' \in Seq(Nat) /\ size' \in Widths
      /\ T!Decoded' \in Idle /\ T!Decoded'.data = typed'
  <2>1. Append(typed, b) \in Seq(Nat)
    BY <1>2, <1>4
  <2> QED
    BY <1>2, <1>3, <1>6, <1>7, <2>1
<1>9. /\ Position(incoming', mode', sbOpt', sbBuf', rest, due) /\ put' \o rest = meant'
      /\ Answers(reply', said) /\ (T!Decoded'.opts \o said) \o due = asked'
  BY <1>1, <1>3, <1>7
<1> QED
  BY <1>8, <1>9 DEF TelnetInv

LEMMA TelnetStays ==
  ASSUME TelnetInv, UNCHANGED T!vars
  PROVE  TelnetInv'
<1>1. /\ incoming' = incoming /\ meant' = meant /\ asked' = asked /\ mode' = mode
      /\ sbOpt' = sbOpt /\ sbBuf' = sbBuf /\ put' = put /\ reply' = reply /\ size' = size
      /\ wire' = wire /\ typed' = typed
  BY DEF T!vars
<1>2. T!Decoded' = T!Decoded
  BY <1>1 DEF T!Decoded
<1> QED
  BY <1>1, <1>2 DEF TelnetInv

LEMMA TelnetStep ==
  TelnetInv /\ [T!Next]_(T!vars) => TelnetInv'
<1> SUFFICES ASSUME TelnetInv, [T!Next]_(T!vars) PROVE TelnetInv'
  OBVIOUS
<1>1. ASSUME NEW b \in Bytes, T!Write(b) PROVE TelnetInv'
  BY <1>1, TelnetWrite
<1>2. ASSUME NEW n \in Widths, T!SendNAWS(n) PROVE TelnetInv'
  BY <1>2, TelnetResize
<1> QED
  BY <1>1, <1>2, TelnetPeer, TelnetFeed, TelnetReply, TelnetStays DEF T!Next

(* Between two items and two chunks nothing is due any more.                  *)
LEMMA TelnetIntact ==
  ASSUME TelnetInv
  PROVE  T!StreamsIntact
<1> SUFFICES ASSUME incoming = <<>>, reply = <<>>
             PROVE  /\ mode = "normal" /\ put = meant
                    /\ T!Decoded.m = "data"
                    /\ T!Decoded.data = typed
                    /\ T!Decoded.opts = asked
                    /\ \A i \in DOMAIN T!Decoded.sizes :
                         T!Decoded.sizes[i] \in {T!Clamped(n) : n \in Widths}
  BY DEF T!StreamsIntact
<1>1. PICK rest \in Seq(Nat), due \in Seq(Nat), said \in Seq(Nat) :
        /\ Position(incoming, mode, sbOpt, sbBuf, rest, due)
        /\ put \o rest = meant /\ Answers(reply, said)
        /\ (T!Decoded.opts \o said) \o due = asked
  BY DEF TelnetInv
<1>2. put \in Seq(Nat) /\ T!Decoded \in Idle /\ T!Decoded.data = typed
  BY DEF TelnetInv
<1>3. mode = "normal" /\ rest = <<>> /\ due = <<>>
  BY <1>1, Rested
<1>4. said = <<>>
  <2>1. T!Decoding(T!Start, <<>>).opts = T!Start.opts \o said
    BY <1>1, StartIsIdle DEF Answers
  <2>2. T!Decoding(T!Start, <<>>) = T!Start
    BY DecodingEmpty
  <2>3. T!Start.opts = <<>>
    BY DEF T!Start
  <2> QED
    BY <2>1, <2>2, <2>3
<1>5. /\ T!Decoded.m = "data" /\ T!Decoded.opts \in Seq(Nat)
      /\ T!Decoded.sizes \in Seq(Announced)
  BY <1>2 DEF Idle, Decoders
<1>6. T!Decoded.opts = asked
  <2> DEFINE v == T!Decoded.opts
  <2>1. v \in Seq(Nat) /\ (v \o <<>>) \o <<>> = asked
    BY <1>1, <1>3, <1>4, <1>5
  <2> HIDE DEF v
  <2>2. (v \o <<>>) \o <<>> = v
    BY <2>1
  <2> QED
    BY <2>1, <2>2 DEF v
<1>7. put = meant
  BY <1>1, <1>2, <1>3
<1>8. \A i \in DOMAIN T!Decoded.sizes : T!Decoded.sizes[i] \in Announced
  <2> DEFINE z == T!Decoded.sizes
  <2>1. z \in Seq(Announced)
    BY <1>5
  <2> HIDE DEF z
  <2>2. \A i \in DOMAIN z : z[i] \in Announced
    BY <2>1
  <2> QED
    BY <2>2 DEF z
<1> QED
  BY <1>2, <1>3, <1>5, <1>6, <1>7, <1>8 DEF Announced

(* Whatever the peer sends and wherever the network cuts it, and whichever    *)
(* frames of input and of resizes come between the replies, the two sides     *)
(* understand each other: feed and the escaping of negotiate.go.              *)
THEOREM TelnetStreamsIntact == T!Spec => []T!StreamsIntact
<1>1. T!Init => TelnetInv
  BY TelnetInit
<1>2. TelnetInv => T!StreamsIntact
  BY TelnetIntact
<1> QED
  BY <1>1, <1>2, TelnetStep, PTL DEF T!Spec

-----------------------------------------------------------------------------
(* The composition                                                          *)

PartsInv ==
  /\ part = "hosts" => HostsInv
  /\ ClientInv
  /\ part = "server" => ServerInv
  /\ SessionInv
  /\ part = "telnet" => TelnetInv
  /\ part = "sftp" => SftpInv
  /\ part = "hostkeys" => KeysInv

(* The stuttering of each part.                                               *)
LEMMA PartsStay ==
  /\ HostsInv /\ UNCHANGED hostsVars => HostsInv'
  /\ ClientInv /\ UNCHANGED clientVars => ClientInv'
  /\ ServerInv /\ UNCHANGED serverVars => ServerInv'
  /\ SessionInv /\ UNCHANGED sessionVars => SessionInv'
  /\ TelnetInv /\ UNCHANGED telnetVars => TelnetInv'
  /\ SftpInv /\ UNCHANGED sftpVars => SftpInv'
  /\ KeysInv /\ UNCHANGED hostkeysVars => KeysInv'
<1>1. HostsInv /\ UNCHANGED hostsVars => HostsInv'
  <2> SUFFICES ASSUME HostsInv, UNCHANGED hostsVars PROVE HostsInv'
    OBVIOUS
  <2>1. UNCHANGED <<plugins, registering, front, life, hostPc, arg, failedAt, now, failures,
                    firstFailAt, until, shut, overlap, log>>
    BY DEF hostsVars
  <2>2. H!TypeOK'
    BY <2>1 DEF HostsInv, H!TypeOK
  <2>4. ReservationInv'
    BY <2>1 DEF HostsInv, ReservationInv
  <2>5. FrontInv'
    BY <2>1 DEF HostsInv, FrontInv, H!Unregistering
  <2>3. CountInv' /\ H!ModulesAccounted' /\ H!FrontIsLive'
    BY <2>1 DEF HostsInv, CountInv, H!ModulesAccounted, H!FrontIsLive
  <2> QED
    BY <2>2, <2>3, <2>4, <2>5 DEF HostsInv
<1>2. ClientInv /\ UNCHANGED clientVars => ClientInv'
  BY ClientStep DEF clientVars, C!vars, C!sideVars, C!serverVars, C!readVars, C!mapVars, C!callVars
<1>3. ServerInv /\ UNCHANGED serverVars => ServerInv'
  BY DEF serverVars, ServerInv, ServerTypes, AcceptInv, S!ServeClosesConnections
<1>4. SessionInv /\ UNCHANGED sessionVars => SessionInv'
  BY DEF SessionInv, sessionVars, P!Closes, P!KeptAlive
<1>5. SftpInv /\ UNCHANGED sftpVars => SftpInv'
  BY SftpStep DEF sftpVars, F!vars
<1>6. KeysInv /\ UNCHANGED hostkeysVars => KeysInv'
  BY KeysStutter DEF hostkeysVars, N!vars
<1>7. TelnetInv /\ UNCHANGED telnetVars => TelnetInv'
  BY TelnetStays DEF telnetVars, T!vars
<1> QED
  BY <1>1, <1>2, <1>3, <1>4, <1>5, <1>6, <1>7

(* The part that runs in a behaviour keeps its own invariant.                *)
THEOREM PluginsInvariant == MCSpec => []PartsInv
<1> DEFINE all == <<hostsVars, clientVars, serverVars, sessionVars, desktopVars, telnetVars,
                    sftpVars, hostkeysVars, part>>
<1>1. MCInit => PartsInv
  <2>1. part = "telnet" /\ T!Init => TelnetInv
    BY TelnetInit
  <2> QED
    BY <2>1, HostsInit, ClientInit, ServerInit, SessionInit, SftpInit, KeysInit
       DEF MCInit, PartsInv
<1>2. PartsInv /\ [MCNext]_all => PartsInv'
  <2> SUFFICES ASSUME PartsInv, [MCNext]_all
               PROVE  PartsInv'
    OBVIOUS
  <2>1. part' = part
    BY DEF MCNext
  <2>2. part = "hosts" => HostsInv'
    BY HostsStep, PartsStay DEF PartsInv, MCNext
  <2>3. ClientInv'
    BY ClientStep, PartsStay DEF PartsInv, MCNext
  <2>4. part = "server" => ServerInv'
    BY ServerStep, PartsStay DEF PartsInv, MCNext
  <2>5. SessionInv'
    BY SessionStep, PartsStay DEF PartsInv, MCNext
  <2>6. part = "sftp" => SftpInv'
    BY SftpStep, PartsStay DEF PartsInv, MCNext
  <2>7. part = "hostkeys" => KeysInv'
    BY KeysStep, PartsStay DEF PartsInv, MCNext
  <2>8. part = "telnet" => TelnetInv'
    BY TelnetStep, PartsStay DEF PartsInv, MCNext
  <2> QED
    BY <2>1, <2>2, <2>3, <2>4, <2>5, <2>6, <2>7, <2>8 DEF PartsInv
<1> QED
  BY <1>1, <1>2, PTL DEF MCSpec

(* The hosts, for the composition: the maps account for every module, and what *)
(* a caller finds is live.                                                    *)
THEOREM PluginsHosts == MCSpec => []HostsConsistent
<1>1. PartsInv => HostsConsistent
  BY DEF PartsInv, HostsInv, HostsConsistent
<1> QED
  BY <1>1, PluginsInvariant, PTL

(* A quarantine begins only with Threshold failures in a row, none recorded   *)
(* as of after the window that the first of them began.                       *)
THEOREM PluginsQuarantine == MCSpec => QuarantineEarned
<1> DEFINE all == <<hostsVars, clientVars, serverVars, sessionVars, desktopVars, telnetVars,
                    sftpVars, hostkeysVars, part>>
<1>1. PartsInv /\ [MCNext]_all => [part = "hosts" => H!Earned]_hostsVars
  <2> SUFFICES ASSUME PartsInv, MCNext, part = "hosts" PROVE H!Earned
    OBVIOUS
  <2> QED
    BY QuarantineStep DEF PartsInv, MCNext
<1> QED
  BY <1>1, PluginsInvariant, PTL DEF MCSpec, QuarantineEarned

(* The client, for the composition: see ClientImplementsCalls.                *)
THEOREM PluginsCalls == MCSpec => ImplementsCalls
<1> DEFINE all == <<hostsVars, clientVars, serverVars, sessionVars, desktopVars, telnetVars,
                    sftpVars, hostkeysVars, part>>
<1>1. MCInit => C!Abstract!Init
  BY ClientRefinesInit DEF MCInit
<1>2. PartsInv /\ [MCNext]_all => [C!Abstract!Next]_(C!Abstract!vars)
  <2> SUFFICES ASSUME PartsInv, [MCNext]_all PROVE [C!Abstract!Next]_(C!Abstract!vars)
    OBVIOUS
  <2>1. UNCHANGED clientVars => UNCHANGED C!vars
    BY DEF clientVars, C!vars, C!sideVars, C!serverVars, C!readVars, C!mapVars, C!callVars
  <2>2. [C!Next]_(C!vars)
    BY <2>1 DEF MCNext
  <2> QED
    BY <2>2, ClientRefines DEF PartsInv
<1> QED
  BY <1>1, <1>2, PluginsInvariant, PTL DEF MCSpec, ImplementsCalls, C!ImplementsCalls, C!Abstract!Spec

(* The server, for the composition: see ServeLeavesNoConnection.              *)
THEOREM PluginsServe == MCSpec => []ServeClosesConnections
<1>1. PartsInv => ServeClosesConnections
  BY DEF PartsInv, ServerInv, ServeClosesConnections
<1> QED
  BY <1>1, PluginsInvariant, PTL

(* The sessions, for the composition: see SessionReleases.                    *)
THEOREM PluginsRelease == MCSpec => []ResourcesReleased
<1>1. PartsInv => ResourcesReleased
  BY DEF PartsInv, SessionInv, ResourcesReleased, P!ResourcesReleased
<1> QED
  BY <1>1, PluginsInvariant, PTL

(* Both ends of a telnet connection, for the composition: see                 *)
(* TelnetStreamsIntact.                                                       *)
THEOREM PluginsStreams == MCSpec => []StreamsIntact
<1>1. PartsInv => StreamsIntact
  BY TelnetIntact DEF PartsInv, StreamsIntact
<1> QED
  BY <1>1, PluginsInvariant, PTL

(* The copies, for the composition: see SftpCopiesWhole.                      *)
THEOREM PluginsCopies == MCSpec => []ReportedCopiesAreWhole
<1>1. PartsInv => ReportedCopiesAreWhole
  BY DEF PartsInv, SftpInv, ReportedCopiesAreWhole
<1> QED
  BY <1>1, PluginsInvariant, PTL

(* The host keys, for the composition: see OpensTrustKeys.                    *)
THEOREM PluginsHostKeys == MCSpec => []HostKeysTrusted
<1>1. PartsInv => HostKeysTrusted
  BY KeysTrusted DEF PartsInv, HostKeysTrusted
<1> QED
  BY <1>1, PluginsInvariant, PTL
=============================================================================
