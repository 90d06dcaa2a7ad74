---------------------------- MODULE BrowserShell ----------------------------
(***************************************************************************)
(* The Aetheris shell: BrowserChrome (the address bar and the buttons),    *)
(* BrowserApplication (the tabs), and in each tab a BrowserSession with    *)
(* its history, its NavigationController and its viewport.                 *)
(*                                                                         *)
(* Everything runs in one thread; an action is a call by the user          *)
(* interface.  Whether the resource loader provides a page with all its    *)
(* style sheets and images is a choice of each navigation.  Of the two     *)
(* directions of the viewport only the vertical one scrolls here.          *)
(***************************************************************************)
EXTENDS Integers, Sequences, FiniteSets

CONSTANTS
    Tabs,           \* identities of tabs; m_tabs holds some of them in order
    Urls,           \* the URLs of documents
    NoUrl,          \* the empty URL, which is not valid
    Widths,         \* widths of the window, 0 among them when it is not shown
    Heights,        \* heights of the window and of documents
    DefaultWidth,   \* the width a chrome without a window asks for
    Offsets,        \* distances a scroll may ask for
    MaxLoads        \* bound on the number of documents loaded

ASSUME ShellAssumption ==
    /\ NoUrl \notin Urls
    /\ Widths \subseteq Nat /\ Heights \subseteq Nat /\ Offsets \subseteq Int
    /\ DefaultWidth \in Nat \ {0}
    /\ MaxLoads \in Nat

VARIABLES
    order,      \* m_tabs, as a sequence of tabs
    active,     \* m_active, counted from 1; 0 is none
    session,    \* the BrowserSession of each tab
    window,     \* m_width and m_height
    pressed,    \* m_primary_pressed
    chrome,     \* m_address and m_state of the chrome
    loads       \* documents loaded so far; a document is named by its number

vars == <<order, active, session, window, pressed, chrome, loads>>

Min2(a, b) == IF a < b THEN a ELSE b
Max2(a, b) == IF a < b THEN b ELSE a

Request == [url : Urls \cup {NoUrl}, width : Nat]
HistoryEntry == [request : Request, metadata : Urls]
Size == [width : Nat, height : Nat]

Session ==
    [history : Seq(HistoryEntry),
     index : Nat,                       \* m_current_history_index from 1, 0 is none
     document : Nat,                    \* m_current_document, 0 is none
     url : Urls \cup {NoUrl},           \* m_current_url
     lifecycle : {"Idle", "Complete", "Failed"},
     page : Urls \cup {NoUrl},          \* m_current_page, NoUrl is none
     hovered : Nat, focused : Nat,      \* the document of the node, 0 is none
     forms : Nat,                       \* the document m_form_runtime was made for
     size : Size,                       \* the viewport
     length : Nat,                      \* m_document_height
     scroll : Nat]

TypeOK ==
    /\ order \in Seq(Tabs)
    /\ active \in Nat
    /\ session \in [Tabs -> Session]
    /\ window \in Size
    /\ pressed \in BOOLEAN
    /\ chrome \in [address : Urls \cup {NoUrl}, state : {"Idle", "Ready", "Error"}]
    /\ loads \in Nat

(***************************************************************************)
(* The viewport.                                                           *)
(***************************************************************************)
\* Mutant: scrolling up does not stop at the top.
ClampScrollBelow(s) ==
    [s EXCEPT !.scroll = Min2(@, Max2(0, s.length - s.size.height))]

ClampScroll(s) ==
    [s EXCEPT !.scroll = Max2(0, Min2(@, Max2(0, s.length - s.size.height)))]

\* Mutant: a smaller or larger viewport keeps its scroll position.
SetSizeUnclamped(s, size) == [s EXCEPT !.size = size]

SetSize(s, size) == ClampScroll([s EXCEPT !.size = size])

SetDocumentSize(s, length) == ClampScroll([s EXCEPT !.length = length])

ScrollTo(s, y) == ClampScroll([s EXCEPT !.scroll = y])

(***************************************************************************)
(* BrowserSession.  Navigations differ in what becomes of the history.     *)
(***************************************************************************)
NewSession ==
    [history |-> <<>>, index |-> 0, document |-> 0, url |-> NoUrl,
     lifecycle |-> "Idle", page |-> NoUrl, hovered |-> 0, focused |-> 0, forms |-> 0,
     size |-> [width |-> 0, height |-> 0], length |-> 0, scroll |-> 0]

CanGoBack(s) == s.index > 1
CanGoForward(s) == s.index > 0 /\ s.index < Len(s.history)

\* NavigationController::navigate fails before it loads anything, or while it
\* loads, and leaves all but the lifecycle alone.
NavigationFails(s) == [s EXCEPT !.lifecycle = "Failed"]

RequestIsValid(request) == request.url # NoUrl /\ request.width > 0

\* Mutant: the nodes the visual state points to outlive their document.
ShowDocumentKeepingState(s, request, length) ==
    LET d == [s EXCEPT !.document = loads + 1, !.url = request.url, !.page = request.url,
                       !.lifecycle = "Complete", !.forms = loads + 1]
        v == SetDocumentSize(d, length)
    IN IF v.size.width = 0
       THEN SetSize(v, [width |-> request.width, height |-> length])
       ELSE v

\* The new document replaces the old one, with everything that refers to it.
ShowDocument(s, request, length) ==
    LET d == [s EXCEPT !.document = loads + 1, !.url = request.url, !.page = request.url,
                       !.lifecycle = "Complete",
                       !.hovered = 0, !.focused = 0, !.forms = loads + 1]
        v == SetDocumentSize(d, length)
    IN IF v.size.width = 0
       THEN SetSize(v, [width |-> request.width, height |-> length])
       ELSE v

\* Mutant: the current entry is erased with the ones after it.
AppendHistoryErasingCurrent(s, request) ==
    LET kept == SubSeq(s.history, 1, Max2(0, s.index - 1)) IN
    [s EXCEPT !.history = Append(kept, [request |-> request, metadata |-> request.url]),
              !.index = Len(kept) + 1]

\* append_history: entries after the current one are erased.
AppendHistory(s, request) ==
    LET kept == SubSeq(s.history, 1, s.index) IN
    [s EXCEPT !.history = Append(kept, [request |-> request, metadata |-> request.url]),
              !.index = Len(kept) + 1]

\* Otherwise the metadata goes into the entry that is current so far.
ReplaceMetadata(s, request) ==
    [s EXCEPT !.history[s.index].metadata = request.url]

MoveTo(s, target) == [s EXCEPT !.index = target]

(***************************************************************************)
(* What a navigation of the active tab may lead to: s is its session with  *)
(* the history it has when the page is loaded.                             *)
(***************************************************************************)

\* Mutant: the last tab takes what is meant for the active one.
LastTab == order[Len(order)]

ActiveTab == order[active]

LoadSucceeds(request, s) ==
    /\ RequestIsValid(request)
    /\ loads < MaxLoads
    /\ loads' = loads + 1
    /\ \E length \in Heights :
           session' = [session EXCEPT ![ActiveTab] = ShowDocument(s, request, length)]

LoadFails ==
    /\ session' = [session EXCEPT ![ActiveTab] = NavigationFails(@)]
    /\ UNCHANGED loads

\* sync_status of the chrome.
SyncStatus(state) == chrome' = [chrome EXCEPT !.state = state]

Init ==
    /\ \E t \in Tabs, w \in Widths, h \in Heights :
           /\ order = <<t>>
           /\ window = [width |-> w, height |-> h]
           /\ session = [u \in Tabs |-> IF u = t THEN SetSize(NewSession, window) ELSE NewSession]
    /\ active = 1
    /\ pressed = FALSE
    /\ chrome = [address |-> NoUrl, state |-> "Idle"]
    /\ loads = 0

SetAddress(u) ==
    /\ chrome' = [chrome EXCEPT !.address = u]
    /\ UNCHANGED <<order, active, session, window, pressed, loads>>

(***************************************************************************)
(* The navigation buttons.  Each is called on the chrome, which asks the   *)
(* application for the active session and shows the result.                *)
(***************************************************************************)
Nav == UNCHANGED <<order, active, window, pressed>>

NoActiveTab ==
    /\ active = 0
    /\ SyncStatus("Error")
    /\ Nav /\ UNCHANGED <<session, loads>>

AddressRequest ==
    LET width == session[ActiveTab].size.width IN
    [url |-> chrome.address, width |-> IF width > 0 THEN width ELSE DefaultWidth]

Navigate ==
    /\ active # 0
    /\ \/ /\ LoadSucceeds(AddressRequest, AppendHistory(session[ActiveTab], AddressRequest))
          /\ SyncStatus("Ready")
       \/ /\ LoadFails
          /\ SyncStatus("Error")
    /\ Nav

\* reload, back and forward without an entry to go to.
NothingToLoad(enabled) ==
    /\ ~enabled
    /\ SyncStatus("Error")
    /\ UNCHANGED <<session, loads>>

Reload ==
    /\ active # 0
    /\ LET s == session[ActiveTab]
           request == s.history[s.index].request
       IN \/ NothingToLoad(s.index > 0)
          \/ /\ s.index > 0
             /\ LoadSucceeds(request, ReplaceMetadata(s, request))
             /\ SyncStatus("Ready")
          \/ /\ s.index > 0
             /\ LoadFails
             /\ SyncStatus("Error")
    /\ Nav

\* Mutant: the position in the history moves whether or not the page is loaded.
TraverseAnyway(enabled, target) ==
    LET s == session[ActiveTab]
        request == s.history[target].request
    IN
    \/ NothingToLoad(enabled)
    \/ /\ enabled
       /\ LoadSucceeds(request, MoveTo(ReplaceMetadata(s, request), target))
       /\ SyncStatus("Ready")
    \/ /\ enabled
       /\ session' = [session EXCEPT ![ActiveTab] = MoveTo(NavigationFails(@), target)]
       /\ SyncStatus("Error")
       /\ UNCHANGED loads

Traverse(enabled, target) ==
    LET s == session[ActiveTab]
        request == s.history[target].request
    IN
    \/ NothingToLoad(enabled)
    \/ /\ enabled
       /\ LoadSucceeds(request, MoveTo(ReplaceMetadata(s, request), target))
       /\ SyncStatus("Ready")
    \/ /\ enabled
       /\ LoadFails
       /\ SyncStatus("Error")

Back ==
    /\ active # 0
    /\ LET s == session[ActiveTab] IN Traverse(CanGoBack(s), s.index - 1)
    /\ Nav

Forward ==
    /\ active # 0
    /\ LET s == session[ActiveTab] IN Traverse(CanGoForward(s), s.index + 1)
    /\ Nav

(***************************************************************************)
(* Tabs.                                                                   *)
(***************************************************************************)
OpenTabs == {order[i] : i \in 1..Len(order)}

\* Mutant: a new tab starts with the viewport of a session without a window.
NewTabUnsized(t) ==
    /\ t \notin OpenTabs
    /\ order' = Append(order, t)
    /\ session' = [session EXCEPT ![t] = NewSession]
    /\ active' = Len(order) + 1
    /\ UNCHANGED <<window, pressed, chrome, loads>>

NewTab(t) ==
    /\ t \notin OpenTabs
    /\ order' = Append(order, t)
    /\ session' = [session EXCEPT ![t] = SetSize(NewSession, window)]
    /\ active' = Len(order) + 1
    /\ UNCHANGED <<window, pressed, chrome, loads>>

Without(s, i) == SubSeq(s, 1, i - 1) \o SubSeq(s, i + 1, Len(s))

\* Mutant: the position of the active tab is left as it is.
CloseTabLeavingActive(i) ==
    /\ order' = Without(order, i)
    /\ session' = [session EXCEPT ![order[i]] = NewSession]
    /\ active' = IF Len(order) = 1 THEN 0 ELSE active
    /\ UNCHANGED <<window, pressed, chrome, loads>>

\* m_active only changes when it lies past the end, also when an earlier tab
\* is closed.
CloseTab(i) ==
    /\ order' = Without(order, i)
    /\ session' = [session EXCEPT ![order[i]] = NewSession]
    /\ active' = Min2(active, Len(order) - 1)
    /\ UNCHANGED <<window, pressed, chrome, loads>>

CloseActiveTab == active # 0 /\ CloseTab(active)

SwitchToTab(i) ==
    /\ active' = i
    /\ UNCHANGED <<order, session, window, pressed, chrome, loads>>

(***************************************************************************)
(* The pointer, the window and scrolling.                                  *)
(***************************************************************************)
ActiveBecomes(s) ==
    /\ session' = [session EXCEPT ![ActiveTab] = s]
    /\ UNCHANGED <<order, active, window, chrome, loads>>

\* hover_at: the node under the pointer, if there is any.
PointerMove ==
    /\ active # 0
    /\ \E hit \in BOOLEAN :
           LET s == session[ActiveTab] IN
           ActiveBecomes([s EXCEPT !.hovered = IF hit THEN s.document ELSE 0])
    /\ UNCHANGED pressed

\* activate_control_at: a click on a control of the form.
PressControl ==
    /\ active # 0
    /\ session[ActiveTab].forms # 0
    /\ LET s == session[ActiveTab] IN ActiveBecomes([s EXCEPT !.focused = s.forms])
    /\ pressed' = TRUE

\* activate_at: a click on a link into the same document.
PressFragment(y) ==
    /\ active # 0
    /\ session[ActiveTab].document # 0
    /\ ActiveBecomes(ScrollTo(session[ActiveTab], y))
    /\ pressed' = TRUE

\* activate_at: a click on a link to another document.  The chrome is not told.
PressLink(u) ==
    /\ active # 0
    /\ session[ActiveTab].document # 0
    /\ LET request == [url |-> u, width |-> session[ActiveTab].size.width] IN
       \/ LoadSucceeds(request, AppendHistory(session[ActiveTab], request))
       \/ LoadFails
    /\ pressed' = TRUE
    /\ UNCHANGED <<order, active, window, chrome>>

\* A press that meets nothing, or no tab.
PressNothing ==
    /\ pressed' = TRUE
    /\ UNCHANGED <<order, active, session, window, chrome, loads>>

PointerRelease ==
    /\ pressed' = FALSE
    /\ UNCHANGED <<order, active, session, window, chrome, loads>>

\* set_viewport of the session sets the size of its document again, which the
\* viewport has already.
Resize(size) ==
    /\ window' = size
    /\ session' = [t \in Tabs |-> IF t \in OpenTabs THEN SetSize(session[t], size)
                                  ELSE session[t]]
    /\ UNCHANGED <<order, active, pressed, chrome, loads>>

Scroll(dy) ==
    /\ active # 0
    /\ LET s == session[ActiveTab] IN ActiveBecomes(ScrollTo(s, s.scroll + dy))
    /\ UNCHANGED pressed

Next ==
    \/ \E u \in Urls : SetAddress(u) \/ PressLink(u)
    \/ NoActiveTab \/ Navigate \/ Reload \/ Back \/ Forward
    \/ \E t \in Tabs : NewTab(t)
    \/ CloseActiveTab
    \/ \E i \in 1..Len(order) : CloseTab(i) \/ SwitchToTab(i)
    \/ PointerMove \/ PressControl \/ PressNothing \/ PointerRelease
    \/ \E y \in Offsets : PressFragment(y) \/ Scroll(y)
    \/ \E size \in [width : Widths, height : Heights] : Resize(size)

Spec == Init /\ [][Next]_vars

-----------------------------------------------------------------------------
(***************************************************************************)
(* Properties.                                                             *)
(***************************************************************************)

\* The application has an active tab exactly when it has tabs, and it is one of
\* them: active_session() indexes m_tabs with m_active unchecked.
ActiveIsOpen ==
    IF order = <<>> THEN active = 0 ELSE active \in 1..Len(order)

\* The page a session shows, the document its NavigationController holds and
\* the current history entry are the same page, through navigations that fail at
\* any point, back, forward and reload: commit and its callers update the three
\* one after the other.
PageIsCurrentEntry ==
    \A t \in OpenTabs :
        LET s == session[t] IN
        IF s.index = 0
        THEN s.history = <<>> /\ s.page = NoUrl /\ s.url = NoUrl /\ s.document = 0
        ELSE /\ s.index <= Len(s.history)
             /\ s.page = s.history[s.index].request.url
             /\ s.url = s.page
             /\ s.document # 0

\* No session keeps a node of a document it no longer has: hovered and focused
\* are raw pointers into the document, and so are the controls of the forms.
NodesBelongToDocument ==
    \A t \in OpenTabs :
        LET s == session[t] IN
        {s.hovered, s.focused, s.forms} \subseteq {0, s.document}

\* The scroll position lies in the document, whatever became of the sizes of the
\* window and the document since the last scroll (Viewport::clamp_scroll).
ScrollInDocument ==
    \A t \in OpenTabs :
        LET s == session[t] IN
        s.scroll = 0 \/ s.scroll + s.size.height <= s.length

\* The viewport of every tab, in the background and newly opened too, is that of
\* the window, once the window has a width; only a session without a width takes
\* one from its first document (BrowserSession::commit).
ViewportFollowsWindow ==
    window.width > 0 => \A t \in OpenTabs : session[t].size = window

\* An entry one can go back to stays where it is, and so does the current one:
\* no navigation, failed or not, changes the requests up to the current position.
BackEntriesKept ==
    [][\A t \in OpenTabs \cap OpenTabs' :
           LET s == session[t] IN
           /\ s.index <= Len(session'[t].history)
           /\ \A i \in 1..s.index :
                  session'[t].history[i].request = s.history[i].request]_vars

\* What happens in one tab does not show in another: a step changes the session
\* of the active tab only, but for the window's new size.
TabsAreIndependent ==
    [][\A t \in OpenTabs \cap OpenTabs' :
           \/ active # 0 /\ t = order[active]
           \/ session'[t] \in {session[t], SetSize(session[t], window')}]_vars
=============================================================================
