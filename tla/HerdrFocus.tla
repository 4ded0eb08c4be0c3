----------------------------- MODULE HerdrFocus -----------------------------
(***************************************************************************)
(* POST /api/actions/herdr/{kind}/{target}/focus: runAction (src/internal/ *)
(* httpapi/server.go) has Actions.Execute (src/internal/herdr/actions.go)  *)
(* ask Herdr where the target is and then bring up its workspace, its tab  *)
(* and the agent in it, one call after the other.  Two requests may run at *)
(* once, humans use Herdr meanwhile, and any call may fail, before Herdr   *)
(* has done what it asks or after.                                         *)
(***************************************************************************)
EXTENDS Naturals

CONSTANTS
    Requests, Workspaces, Tabs, Panes,
    NoPlace,    \* where a closed tab or pane is
    TabIn,      \* TabIn[t]: the workspace t is opened in
    PaneIn,     \* PaneIn[p]: the tab p is opened in
    Shells,     \* the panes that run no agent
    MaxTouches  \* bound: what humans do in Herdr

Assumptions ==
    /\ Workspaces # {} /\ NoPlace \notin Workspaces \union Tabs \union Panes
    /\ TabIn \in [Tabs -> Workspaces] /\ PaneIn \in [Panes -> Tabs]
    /\ MaxTouches \in Nat

VARIABLES
    tabIn,      \* the workspace of each tab
    paneIn,     \* the tab of each pane
    screen,     \* the workspace in front, the tab in front in each workspace
                \* and the pane in front in each tab
    request,    \* request[r]: what it is for, how far it is, how it was answered
    touches,    \* what humans have done in Herdr
    calm        \* ghost: since requests last began, Herdr has been left alone
                \* and no call has failed

herdr == <<tabIn, paneIn, screen, touches>>
vars == <<tabIn, paneIn, screen, touches, request, calm>>

Targets == [kind : {"workspace"}, id : Workspaces] \union
           [kind : {"tab"}, id : Tabs] \union [kind : {"pane"}, id : Panes]

\* An item's action outlives the pane it is for, and other kinds may be asked
\* for by hand.
Other == [kind |-> "other", id |-> NoPlace]

Steps == {"none", "get", "workspace", "tab", "agent"}
Answers == {"none", "ok", "missing", "unsupported", "unavailable"}
Located == [workspace : Workspaces \union {NoPlace}, tab : Tabs \union {NoPlace}, agent : BOOLEAN]

TypeOK ==
    /\ tabIn \in [Tabs -> Workspaces \union {NoPlace}]
    /\ paneIn \in [Panes -> Tabs \union {NoPlace}]
    /\ screen \in [workspace : Workspaces, tab : [Workspaces -> Tabs \union {NoPlace}],
                   pane : [Tabs -> Panes \union {NoPlace}]]
    /\ request \in [Requests -> [target : Targets \union {Other}, step : Steps,
                                answer : Answers, at : Located]]
    /\ touches \in 0 .. MaxTouches /\ calm \in BOOLEAN

Nowhere == [workspace |-> NoPlace, tab |-> NoPlace, agent |-> FALSE]
NoRequest == [target |-> Other, step |-> "none", answer |-> "none", at |-> Nowhere]

SomePane(t, panes) ==
    IF \E p \in Panes : panes[p] = t THEN CHOOSE p \in Panes : panes[p] = t ELSE NoPlace
SomeTab(w, tabs) ==
    IF \E t \in Tabs : tabs[t] = w THEN CHOOSE t \in Tabs : tabs[t] = w ELSE NoPlace

Init ==
    /\ tabIn = TabIn /\ paneIn = PaneIn
    /\ screen = [workspace |-> CHOOSE w \in Workspaces : TRUE,
                 tab |-> [w \in Workspaces |-> SomeTab(w, TabIn)],
                 pane |-> [t \in Tabs |-> SomePane(t, PaneIn)]]
    /\ request = [r \in Requests |-> NoRequest]
    /\ touches = 0 /\ calm = FALSE

-----------------------------------------------------------------------------
(* Herdr                                                                   *)

\* What a human sees.
TabOnScreen == screen.tab[screen.workspace]
PaneOnScreen == IF TabOnScreen = NoPlace THEN NoPlace ELSE screen.pane[TabOnScreen]

\* Closing or moving a tab or a pane brings another one to the front.
Rearranged(tabs, panes) ==
    [screen EXCEPT
        !.tab = [w \in Workspaces |->
                    IF @[w] # NoPlace /\ tabs[@[w]] = w THEN @[w] ELSE SomeTab(w, tabs)],
        !.pane = [t \in Tabs |->
                    IF @[t] # NoPlace /\ panes[@[t]] = t THEN @[t] ELSE SomePane(t, panes)]]

Touch ==
    /\ touches < MaxTouches
    /\ touches' = touches + 1 /\ calm' = FALSE
    /\ UNCHANGED request

HumanMovesPane(p, t) ==
    /\ paneIn[p] # NoPlace /\ tabIn[t] # NoPlace /\ paneIn[p] # t
    /\ paneIn' = [paneIn EXCEPT ![p] = t]
    /\ screen' = Rearranged(tabIn, paneIn')
    /\ Touch /\ UNCHANGED tabIn

HumanClosesTab(t) ==
    /\ tabIn[t] # NoPlace
    /\ tabIn' = [tabIn EXCEPT ![t] = NoPlace]
    /\ paneIn' = [p \in Panes |-> IF paneIn[p] = t THEN NoPlace ELSE paneIn[p]]
    /\ screen' = Rearranged(tabIn', paneIn')
    /\ Touch

HumanLooksAt(w) ==
    /\ screen.workspace # w
    /\ screen' = [screen EXCEPT !.workspace = w]
    /\ Touch /\ UNCHANGED <<tabIn, paneIn>>

-----------------------------------------------------------------------------
(* Execute                                                                 *)

Running(r) == request[r].step # "none"

FirstStep(target) == IF target.kind = "workspace" THEN "workspace" ELSE "get"

\* A request begins; one that is not supported is answered without a call.
Begin(r, target) ==
    /\ ~Running(r)
    /\ LET first == \A q \in Requests : ~Running(q)
           others == IF first THEN [q \in Requests |-> NoRequest] ELSE request
       IN  /\ request' = [others EXCEPT ![r] =
                [NoRequest EXCEPT
                    !.target = target,
                    !.step = IF target = Other THEN "none" ELSE FirstStep(target),
                    !.answer = IF target = Other THEN "unsupported" ELSE "none"]]
           /\ calm' = ((first \/ calm) /\ target # Other)
    /\ UNCHANGED herdr

Answered(r, answer) == [request EXCEPT ![r].step = "none", ![r].answer = answer]
Refused(r, answer) == [request EXCEPT ![r] = [NoRequest EXCEPT !.answer = answer]]

\* Variant of AfterWorkspace: a pane with an agent is focused by that alone.
AfterWorkspaceShort(q) ==
    IF q.target.kind = "workspace" THEN "none"
    ELSE IF q.at.agent THEN "agent" ELSE "tab"

\* The calls of focusTab and focusPane, in their order.
AfterWorkspace(q) == IF q.target.kind = "workspace" THEN "none" ELSE "tab"
AfterTab(q) == IF q.target.kind = "pane" /\ q.at.agent THEN "agent" ELSE "none"

Goes(r, step) ==
    request' = IF step = "none" THEN Answered(r, "ok") ELSE [request EXCEPT ![r].step = step]

PaneExists(p) == paneIn[p] # NoPlace
TabExists(t) == tabIn[t] # NoPlace
Exists(target) ==
    CASE target.kind = "tab" -> TabExists(target.id)
      [] target.kind = "pane" -> PaneExists(target.id)
      [] OTHER -> TRUE

\* tab.get, pane.get.
Get(r) ==
    LET target == request[r].target
        tab == IF target.kind = "tab" THEN target.id ELSE paneIn[target.id]
    IN  /\ request[r].step = "get" /\ Exists(target)
        /\ request' = [request EXCEPT ![r].step = "workspace",
                ![r].at = [workspace |-> tabIn[tab], tab |-> tab,
                           agent |-> target.kind = "pane" /\ target.id \notin Shells]]
        /\ UNCHANGED <<herdr, calm>>

WorkspaceOf(q) == IF q.target.kind = "workspace" THEN q.target.id ELSE q.at.workspace

\* What Herdr does for the call that r makes next.  Each call brings its
\* object to the front of what it is in, and no more than that.
Done(q) ==
    CASE q.step = "workspace" -> [screen EXCEPT !.workspace = WorkspaceOf(q)]
      [] q.step = "tab" -> [screen EXCEPT !.tab[tabIn[q.at.tab]] = q.at.tab]
      [] q.step = "agent" -> [screen EXCEPT !.pane[paneIn[q.target.id]] = q.target.id]
      [] OTHER -> screen

Found(q) ==
    CASE q.step = "tab" -> TabExists(q.at.tab)
      [] q.step \in {"get", "agent"} -> Exists(q.target)
      [] OTHER -> TRUE

Focus(r) ==
    /\ request[r].step \in {"workspace", "tab", "agent"}
    /\ Found(request[r])
    /\ screen' = Done(request[r])
    /\ Goes(r, IF request[r].step = "workspace" THEN AfterWorkspace(request[r])
               ELSE IF request[r].step = "tab" THEN AfterTab(request[r]) ELSE "none")
    /\ UNCHANGED <<tabIn, paneIn, touches, calm>>

\* Herdr says not_found, and the request that the target is gone.  A workspace
\* may have been closed meanwhile: which ones are open is left out, and any may
\* be missing when it is asked for.
NotFound(r) ==
    /\ Running(r)
    /\ request[r].step # "workspace" => ~Found(request[r])
    /\ request' = Refused(r, "missing")
    /\ calm' = FALSE
    /\ UNCHANGED herdr

\* The socket cannot be reached, or the answer is late or is none.
Fails(r) ==
    /\ Running(r)
    /\ \/ UNCHANGED screen
       \/ Found(request[r]) /\ screen' = Done(request[r])
    /\ request' = Refused(r, "unavailable")
    /\ calm' = FALSE
    /\ UNCHANGED <<tabIn, paneIn, touches>>

Next ==
    \/ \E p \in Panes, t \in Tabs : HumanMovesPane(p, t)
    \/ \E t \in Tabs : HumanClosesTab(t)
    \/ \E w \in Workspaces : HumanLooksAt(w)
    \/ \E r \in Requests :
          \/ \E target \in Targets \union {Other} : Begin(r, target)
          \/ Get(r) \/ Focus(r) \/ NotFound(r) \/ Fails(r)

Spec == Init /\ [][Next]_vars

-----------------------------------------------------------------------------
(* Properties                                                              *)

\* The target of an answered request is in front; of a pane without an agent,
\* its tab is.
InFront(q) ==
    CASE q.target.kind = "workspace" -> screen.workspace = q.target.id
      [] q.target.kind = "tab" -> TabOnScreen = q.target.id
      [] q.target.kind = "pane" ->
            IF q.at.agent THEN PaneOnScreen = q.target.id ELSE TabOnScreen = q.at.tab
      [] OTHER -> FALSE

\* Execute, actions.go:27-52: when requests that overlap have all been answered
\* 200 and nobody else touched Herdr, the screen shows what one of them asked
\* for and not the workspace of one with the tab of another.
FocusIsWhatSomeoneAskedFor ==
    LET ok == {r \in Requests : request[r].answer = "ok"}
    IN  (calm /\ ok # {} /\ \A r \in Requests :
            ~Running(r) /\ request[r].answer \in {"none", "ok"})
        => \E r \in ok : InFront(request[r])
=============================================================================
