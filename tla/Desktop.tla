------------------------------- MODULE Desktop -------------------------------
(***************************************************************************)
(* The open sessions as the desktop client shows them: the sessionRegistry *)
(* of cmd/desktop/gui_fyne.go with its reservations, tabs, panes and       *)
(* detached windows, and the sessionTab of fyne_session.go.                *)
(*                                                                         *)
(* Whatever touches a widget runs on the UI goroutine.  The others hand it *)
(* functions with fyne.Do, which runs them in the order they come (uiq);   *)
(* what the user does happens on the UI goroutine between two of them.     *)
(* Opening, closing and running a session and the watcher are goroutines   *)
(* of their own.  The application's session manager is external here: a    *)
(* session lives from OpenSession until it ends, on its own or because of  *)
(* CloseSession.  Of a tab's tree of panes only the set of panes matters.  *)
(***************************************************************************)
EXTENDS Naturals, Sequences, FiniteSets, SequencesExt

CONSTANTS
  Conn,       \* connections
  External,   \* the connections whose protocol has no terminal widget
  Handle,     \* session handles; each is used once
  Tab,        \* tab items
  Opener,     \* opens under way at the same time
  NoTab,      \* the session is not in a tab
  NoConn      \* the handle is not in use

VARIABLES
  alive,      \* sessions the application has
  connOf,     \* sessionTab.connID
  tabOf,      \* sessionTab.tabItem
  windowed,   \* sessionTab.window is set
  openConns,  \* sessionRegistry.openConns
  items,      \* sessionRegistry.items
  panes,      \* sessionRegistry.groups: the sessions of each tab's panes
  active,     \* paneGroup.active, as a set
  shown,      \* the tabs of the tab strip
  opener,     \* an open: [pc, conn, where], pc is idle, wait, reserve or open
  uiq,        \* functions waiting for the UI goroutine
  run,        \* sessions whose sessionTab.run goroutine is running
  listed,     \* the watcher: the sessions ListSessions returned, in a set, or {}
  cleared,    \* history: a DisconnectAll overtook an open
  stranded    \* history: sessions whose window a DisconnectAll left behind

vars == <<alive, connOf, tabOf, windowed, openConns, items, panes, active, shown,
          opener, uiq, run, listed, cleared, stranded>>

appVars == <<alive, connOf>>
placeVars == <<tabOf, windowed, panes, active, shown>>
history == <<cleared, stranded>>

Idle == [pc |-> "idle", conn |-> NoConn, where |-> NoTab]

Init ==
  /\ alive = {}
  /\ connOf = [h \in Handle |-> NoConn]
  /\ tabOf = [h \in Handle |-> NoTab]
  /\ windowed = {}
  /\ openConns = [c \in Conn |-> 0]
  /\ items = {}
  /\ panes = [t \in Tab |-> {}] /\ active = [t \in Tab |-> {}] /\ shown = {}
  /\ opener = [o \in Opener |-> Idle]
  /\ uiq = <<>> /\ run = {} /\ listed = {}
  /\ cleared = FALSE /\ stranded = {}

-----------------------------------------------------------------------------
(* Reservations                                                             *)

reserveConn(c, dup) ==
  /\ openConns[c] = 0 \/ dup
  /\ openConns' = [openConns EXCEPT ![c] = @ + 1]

Less(n) == IF n = 0 THEN 0 ELSE n - 1

releaseConn(c) == openConns' = [openConns EXCEPT ![c] = Less(@)]

-----------------------------------------------------------------------------
(* Opening                                                                  *)

\* A new tab item, a new handle: which one does not matter, so one is chosen.
FreeTabs == {t \in Tab : t \notin shown /\ panes[t] = {} /\ \A h \in Handle : tabOf[h] # t}
NewTab == CHOOSE t \in FreeTabs : TRUE
NewHandles == {h \in Handle : connOf[h] = NoConn}

\* openSession, openSessionInSplit and openSessionInWindow: the reservation comes
\* first.  A split goes to the selected tab, which has to have panes; only the
\* duplicate of the selected tab's session is opened in spite of another session of
\* its connection.  A refused open only moves the focus.
Begin(o, c, where, dup) ==
  /\ opener[o].pc = "idle" /\ NewHandles # {}
  /\ reserveConn(c, dup)
  /\ opener' = [opener EXCEPT ![o] = [pc |-> "open", conn |-> c, where |-> where]]
  /\ UNCHANGED <<appVars, placeVars, items, uiq, run, listed, history>>

openSession(o, c) == Begin(o, c, NoTab, FALSE)

openSessionInSplit(o, c) ==
  \E t \in shown : panes[t] # {} /\ Begin(o, c, t, FALSE)

openSessionInWindow(o, c) == Begin(o, c, "window", FALSE)

duplicateCurrentSession(o) ==
  \E t \in shown, h \in Handle : h \in active[t] /\ Begin(o, connOf[h], NoTab, TRUE)

\* GetConnection, the password dialog or OpenSession fails: the reservation goes.
\* mutant: the cancelled dialog forgets the reservation
OpenFailKept(o) ==
  /\ opener[o].pc = "open"
  /\ opener' = [opener EXCEPT ![o] = Idle]
  /\ UNCHANGED <<appVars, placeVars, openConns, items, uiq, run, listed, history>>

OpenFail(o) ==
  /\ opener[o].pc = "open"
  /\ releaseConn(opener[o].conn)
  /\ opener' = [opener EXCEPT ![o] = Idle]
  /\ UNCHANGED <<appVars, placeVars, items, uiq, run, listed, history>>

\* attachSessionInto: the target of a split still has panes, or else the session gets
\* a tab of its own; add is queued for the UI goroutine, then run begins.
attachSessionInto(o, h) ==
  /\ opener[o].where # "window"
  /\ FreeTabs # {}
  /\ tabOf' = [tabOf EXCEPT ![h] = IF opener[o].where \in Tab /\ panes[opener[o].where] # {}
                                   THEN opener[o].where ELSE NewTab]
  /\ uiq' = Append(uiq, <<"add", h>>)
  /\ run' = run \union {h}
  /\ UNCHANGED windowed

\* attachSessionInWindow is queued as a whole.
attachSessionInWindow(o, h) ==
  /\ opener[o].where = "window"
  /\ windowed' = windowed \union {h}
  /\ uiq' = Append(uiq, <<"addWindow", h>>)
  /\ UNCHANGED <<tabOf, run>>

OpenOk(o) ==
  LET h == CHOOSE n \in NewHandles : TRUE IN
    /\ opener[o].pc = "open"
    /\ NewHandles # {}
    /\ connOf' = [connOf EXCEPT ![h] = opener[o].conn]
    /\ alive' = alive \union {h}
    /\ attachSessionInto(o, h) \/ attachSessionInWindow(o, h)
    /\ opener' = [opener EXCEPT ![o] = Idle]
    /\ UNCHANGED <<openConns, items, panes, active, shown, listed, history>>

-----------------------------------------------------------------------------
(* The registry                                                             *)

\* add: the first session of a tab makes its group and appends the tab; another
\* one splits the active pane and becomes the active one.
Placed(h) ==
  /\ items' = items \union {h}
  /\ IF tabOf[h] = NoTab
     THEN UNCHANGED <<panes, active, shown>>
     ELSE LET t == tabOf[h] IN
          /\ panes' = [panes EXCEPT ![t] = @ \union {h}]
          /\ active' = [active EXCEPT ![t] = {h}]
          /\ shown' = IF panes[t] = {} THEN shown \union {t} ELSE shown

\* removeLeaf: an active pane that goes hands over to one of those that stay; the
\* group and the tab go with the last pane.
Unplaced(h) ==
  IF tabOf[h] = NoTab
  THEN UNCHANGED <<panes, active, shown>>
  ELSE LET t == tabOf[h]
           left == panes[t] \ {h}
       IN /\ panes' = [panes EXCEPT ![t] = left]
          /\ \E a \in IF active[t] # {h} \/ left = {} THEN {active[t] \ {h}}
                                                       ELSE {{l} : l \in left} :
               active' = [active EXCEPT ![t] = a]
          /\ shown' = IF left = {} /\ h \in panes[t] THEN shown \ {t} ELSE shown

\* remove: nothing for a session that is no longer registered.
Removed(h) ==
  IF h \in items
  THEN /\ items' = items \ {h}
       /\ releaseConn(connOf[h])
       /\ Unplaced(h)
  ELSE UNCHANGED <<items, openConns, panes, active, shown>>

\* The UI goroutine runs the next function of its queue.
UiAdd ==
  /\ uiq # <<>> /\ Head(uiq)[1] \in {"add", "addWindow"}
  /\ LET h == Head(uiq)[2] IN
     /\ Placed(h)
     /\ run' = run \union {h}
  /\ uiq' = Tail(uiq)
  /\ UNCHANGED <<appVars, tabOf, windowed, openConns, opener, listed, history>>

UiRemove ==
  /\ uiq # <<>> /\ Head(uiq)[1] = "remove"
  /\ Removed(Head(uiq)[2])
  /\ uiq' = Tail(uiq)
  /\ UNCHANGED <<appVars, tabOf, windowed, opener, run, listed, history>>

-----------------------------------------------------------------------------
(* The user                                                                 *)

\* The tab's close button: the tab goes at once, its sessions are asked to close.
OnClosed(t) ==
  /\ t \in shown
  /\ shown' = shown \ {t}
  /\ UNCHANGED <<appVars, tabOf, windowed, panes, active, openConns, items, opener, uiq,
                 run, listed, history>>

\* closeSession of a bulk delete removes the session without waiting for its end.
closeSession(h) ==
  /\ h \in items
  /\ Removed(h)
  /\ UNCHANGED <<appVars, tabOf, windowed, opener, uiq, run, listed, history>>

setActive(t, h) ==
  /\ t \in shown /\ h \in panes[t]
  /\ active' = [active EXCEPT ![t] = {h}]
  /\ UNCHANGED <<appVars, tabOf, windowed, panes, shown, openConns, items, opener, uiq, run,
                 listed, history>>

\* The session of the active pane moves to a window.
detachCurrentTab(t) ==
  \E h \in active[t] :
    /\ t \in shown
    /\ Unplaced(h)
    /\ tabOf' = [tabOf EXCEPT ![h] = NoTab]
    /\ windowed' = windowed \union {h}
    /\ UNCHANGED <<appVars, openConns, items, opener, uiq, run, listed, history>>

\* The window of a session, there until remove closes it, gives it back as a tab.
reattachToMain(h) ==
  LET t == NewTab IN
  /\ h \in windowed /\ tabOf[h] = NoTab /\ h \in items \union stranded
  /\ FreeTabs # {}
  /\ windowed' = windowed \ {h}
  /\ tabOf' = [tabOf EXCEPT ![h] = t]
  /\ panes' = [panes EXCEPT ![t] = {h}]
  /\ active' = [active EXCEPT ![t] = {h}]
  /\ shown' = shown \union {t}
  /\ UNCHANGED <<appVars, openConns, items, opener, uiq, run, listed, history>>

\* Close the session, then wait for its tab to go, three seconds at most, and open
\* the connection again.
reconnectCurrentSession(o, t) ==
  \E h \in active[t] :
    /\ t \in shown /\ opener[o].pc = "idle" /\ NewHandles # {}
    /\ opener' = [opener EXCEPT ![o] = [pc |-> "wait", conn |-> connOf[h], where |-> NoTab]]
    /\ UNCHANGED <<appVars, placeVars, openConns, items, uiq, run, listed, history>>

Reopen(o) ==
  /\ opener[o].pc = "wait"
  /\ \/ /\ reserveConn(opener[o].conn, FALSE)
        /\ opener' = [opener EXCEPT ![o].pc = "open"]
     \/ /\ openConns[opener[o].conn] > 0
        /\ opener' = [opener EXCEPT ![o] = Idle]
        /\ UNCHANGED openConns
  /\ UNCHANGED <<appVars, placeVars, items, uiq, run, listed, history>>

\* Every registered session is asked to close and every map is emptied; the tabs go,
\* the windows stay.
disconnectAllSessions ==
  /\ items # {}
  /\ shown' = shown \ {tabOf[h] : h \in items}
  /\ items' = {}
  /\ openConns' = [c \in Conn |-> 0]
  /\ panes' = [t \in Tab |-> {}] /\ active' = [t \in Tab |-> {}]
  /\ cleared' = (cleared \/ (\E o \in Opener : opener[o].pc = "open")
                         \/ (\E i \in DOMAIN uiq : uiq[i][1] # "remove"))
  /\ stranded' = stranded \union {h \in items : tabOf[h] = NoTab}
  /\ UNCHANGED <<appVars, tabOf, windowed, opener, uiq, run, listed>>

-----------------------------------------------------------------------------
(* The other goroutines                                                     *)

\* The removes of a set of sessions, at the end of the queue; one that is queued
\* already makes another one do nothing.
Queued(ended) ==
  uiq \o SetToSeq({r \in {<<"remove", h>> : h \in ended} : ~Contains(uiq, r)})

\* External: a session ends.
SessionEnds(h) ==
  /\ h \in alive
  /\ alive' = alive \ {h}
  /\ UNCHANGED <<connOf, placeVars, openConns, items, opener, uiq, run, listed, history>>

\* run returns when the output of a terminal session ends, and queues its remove; for
\* a session without a terminal it waits on a context that nobody cancels.
RunEnds(h) ==
  /\ h \in run \ alive /\ connOf[h] \notin External
  /\ run' = run \ {h}
  /\ uiq' = Queued({h})
  /\ UNCHANGED <<appVars, placeVars, openConns, items, opener, listed, history>>

\* The watcher lists the live sessions, then looks through the registered ones.
WatchList ==
  /\ listed = {}
  /\ listed' = {alive}
  /\ UNCHANGED <<appVars, placeVars, openConns, items, opener, uiq, run, history>>

\* mutant: the watcher only looks at the sessions it has listed
WatchCompareListed ==
  /\ listed # {}
  /\ listed' = {}
  /\ UNCHANGED <<appVars, placeVars, openConns, items, opener, uiq, run, history>>

WatchCompare ==
  /\ listed # {}
  /\ uiq' = Queued(items \ UNION listed)
  /\ listed' = {}
  /\ UNCHANGED <<appVars, placeVars, openConns, items, opener, run, history>>

User ==
  \/ \E o \in Opener, c \in Conn :
       openSession(o, c) \/ openSessionInSplit(o, c) \/ openSessionInWindow(o, c)
  \/ \E o \in Opener : duplicateCurrentSession(o) \/ \E t \in Tab : reconnectCurrentSession(o, t)
  \/ \E h \in Handle : closeSession(h) \/ reattachToMain(h) \/ \E t \in Tab : setActive(t, h)
  \/ \E t \in Tab : OnClosed(t) \/ detachCurrentTab(t)
  \/ disconnectAllSessions

Next ==
  \/ User
  \/ \E o \in Opener : OpenFail(o) \/ OpenOk(o) \/ Reopen(o)
  \/ UiAdd \/ UiRemove
  \/ \E h \in Handle : SessionEnds(h) \/ RunEnds(h)
  \/ WatchList \/ WatchCompare

\* The UI goroutine, the run goroutines and, as long as there is a session to look
\* after, the watcher keep running.
Fairness ==
  /\ WF_vars(UiAdd \/ UiRemove)
  /\ \A h \in Handle : WF_vars(RunEnds(h))
  /\ WF_vars(items # {} /\ WatchList) /\ WF_vars(WatchCompare)

Spec == Init /\ [][Next]_vars /\ Fairness

-----------------------------------------------------------------------------

\* The panes and the registry say the same: a registered session is in the panes of
\* the tab it names, a pane shows a registered session that names its tab (or one
\* whose window a Disconnect all left behind and which was then reattached), and a
\* tab with panes has one of them active.
PanesMatchRegistry ==
  /\ \A h \in items : tabOf[h] # NoTab => h \in panes[tabOf[h]]
  /\ \A t \in Tab : \A h \in panes[t] : h \in items \union stranded /\ tabOf[h] = t
  /\ \A t \in Tab : panes[t] # {} => \E h \in panes[t] : active[t] = {h}

\* Until a Disconnect all overtakes an open, the reservations of a connection are
\* its sessions and its opens under way: none is lost, so no second session slips
\* in, and none is kept, so the connection can be opened again.
ReservationsBalanced ==
  ~cleared =>
    \A c \in Conn :
      openConns[c] = Cardinality({h \in items : connOf[h] = c})
                       + Cardinality({o \in Opener : opener[o].pc = "open" /\ opener[o].conn = c})
                       + Cardinality({i \in DOMAIN uiq : uiq[i][1] # "remove" /\ connOf[uiq[i][2]] = c})

\* The entry of a session that has ended leaves the registry, whether its protocol
\* has a terminal or not.
Ended(h) == h \in items /\ h \notin alive
EndedSessionsLeave == \A h \in Handle : Ended(h) ~> ~Ended(h)
=============================================================================
