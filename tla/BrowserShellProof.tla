-------------------------- MODULE BrowserShellProof --------------------------
(***************************************************************************)
(* Proofs about BrowserShell: whatever the user does and whatever loads,   *)
(* a session's page, document and history agree, it keeps no pointer into  *)
(* a document that is gone, and it scrolls within its document.            *)
(***************************************************************************)
EXTENDS BrowserShell, SequenceTheorems, TLAPS

PageAgrees(s) ==
    IF s.index = 0
    THEN s.history = <<>> /\ s.page = NoUrl /\ s.url = NoUrl /\ s.document = 0
    ELSE /\ s.index <= Len(s.history)
         /\ s.page = s.history[s.index].request.url
         /\ s.url = s.page
         /\ s.document # 0

NodesAgree(s) == {s.hovered, s.focused, s.forms} \subseteq {0, s.document}

ScrollAgrees(s) == s.scroll = 0 \/ s.scroll + s.size.height <= s.length

\* A session that can be shown.
Good(s) == s \in Session /\ PageAgrees(s) /\ NodesAgree(s) /\ ScrollAgrees(s)

\* All but the viewport's part of Good.
Loaded(s) == s \in Session /\ PageAgrees(s) /\ NodesAgree(s)

Distinct(seq) == \A i, j \in 1..Len(seq) : seq[i] = seq[j] => i = j

TabsInv ==
    /\ order \in Seq(Tabs)
    /\ Distinct(order)
    /\ ActiveIsOpen

ShellInv ==
    /\ TabsInv
    /\ session \in [Tabs -> Session]
    /\ \A t \in Tabs : Good(session[t])
    /\ window \in Size
    /\ chrome \in [address : Urls \cup {NoUrl}, state : {"Idle", "Ready", "Error"}]
    /\ pressed \in BOOLEAN
    /\ loads \in Nat

\* The new session has the entries of the old one up to its position.
Keeps(s, new) ==
    /\ s.index <= Len(new.history)
    /\ \A i \in 1..s.index : new.history[i].request = s.history[i].request

-----------------------------------------------------------------------------
(* The viewport. *)

\* What clamping makes of any position, for a document and a window of any height.
LEMMA ClampedPosition ==
    ASSUME NEW y \in Int, NEW length \in Nat, NEW height \in Nat
    PROVE LET c == Max2(0, Min2(y, Max2(0, length - height))) IN
          c \in Nat /\ (c = 0 \/ c + height <= length)
  BY DEF Min2, Max2

\* A session whose scroll position may lie anywhere.
UnclampedSession ==
    [history : Seq(HistoryEntry), index : Nat, document : Nat, url : Urls \cup {NoUrl},
     lifecycle : {"Idle", "Complete", "Failed"}, page : Urls \cup {NoUrl},
     hovered : Nat, focused : Nat, forms : Nat, size : Size, length : Nat, scroll : Int]

\* Clamping the scroll position makes it good and leaves the history alone.
LEMMA ClampGood ==
    ASSUME NEW x \in UnclampedSession, PageAgrees(x), NodesAgree(x)
    PROVE LET c == ClampScroll(x) IN
          Good(c) /\ c.history = x.history /\ c.index = x.index
  <1> DEFINE c == Max2(0, Min2(x.scroll, Max2(0, x.length - x.size.height)))
             r == [x EXCEPT !.scroll = c]
  <1>1. ClampScroll(x) = r
    BY DEF ClampScroll, UnclampedSession
  <1>2. c \in Nat /\ (c = 0 \/ c + x.size.height <= x.length)
    <2>1. x.scroll \in Int /\ x.length \in Nat /\ x.size.height \in Nat
      BY DEF Size, UnclampedSession
    <2> QED BY <2>1, ClampedPosition
  <1> HIDE DEF c
  <1>3. r \in Session
    BY <1>2 DEF Session, UnclampedSession
  <1>4. /\ r.history = x.history /\ r.index = x.index /\ r.page = x.page
        /\ r.url = x.url /\ r.document = x.document
        /\ r.hovered = x.hovered /\ r.focused = x.focused /\ r.forms = x.forms
        /\ r.scroll = c /\ r.length = x.length /\ r.size = x.size
    BY DEF UnclampedSession
  <1> HIDE DEF r
  <1>5. PageAgrees(r) /\ NodesAgree(r) /\ ScrollAgrees(r)
    BY <1>2, <1>4 DEF PageAgrees, NodesAgree, ScrollAgrees
  <1> QED BY <1>1, <1>3, <1>4, <1>5 DEF Good

\* Scrolling to any position.
LEMMA ScrollToGood ==
    ASSUME NEW s, Loaded(s), NEW y \in Int
    PROVE LET c == ScrollTo(s, y) IN
          Good(c) /\ c.history = s.history /\ c.index = s.index
  <1> DEFINE x == [s EXCEPT !.scroll = y]
  <1>1. x \in UnclampedSession
    BY DEF Loaded, Session, UnclampedSession
  <1>2. /\ x.history = s.history /\ x.index = s.index /\ x.page = s.page
        /\ x.url = s.url /\ x.document = s.document
        /\ x.hovered = s.hovered /\ x.focused = s.focused /\ x.forms = s.forms
    BY DEF Loaded, Session
  <1>3. ScrollTo(s, y) = ClampScroll(x)
    BY DEF ScrollTo
  <1> HIDE DEF x
  <1>4. PageAgrees(x) /\ NodesAgree(x)
    BY <1>2 DEF Loaded, PageAgrees, NodesAgree
  <1> QED BY <1>1, <1>2, <1>3, <1>4, ClampGood

\* A viewport of another size.
LEMMA SetSizeGood ==
    ASSUME NEW s, Loaded(s), NEW size \in Size
    PROVE LET c == SetSize(s, size) IN
          Good(c) /\ c.history = s.history /\ c.index = s.index
  <1> DEFINE x == [s EXCEPT !.size = size]
  <1>1. x \in UnclampedSession
    BY DEF Loaded, Session, UnclampedSession
  <1>2. /\ x.history = s.history /\ x.index = s.index /\ x.page = s.page
        /\ x.url = s.url /\ x.document = s.document
        /\ x.hovered = s.hovered /\ x.focused = s.focused /\ x.forms = s.forms
    BY DEF Loaded, Session
  <1>3. SetSize(s, size) = ClampScroll(x)
    BY DEF SetSize
  <1> HIDE DEF x
  <1>4. PageAgrees(x) /\ NodesAgree(x)
    BY <1>2 DEF Loaded, PageAgrees, NodesAgree
  <1> QED BY <1>1, <1>2, <1>3, <1>4, ClampGood

\* A document of another size.
LEMMA SetDocumentSizeGood ==
    ASSUME NEW s, Loaded(s), NEW length \in Nat
    PROVE LET c == SetDocumentSize(s, length) IN
          Good(c) /\ c.history = s.history /\ c.index = s.index
  <1> DEFINE x == [s EXCEPT !.length = length]
  <1>1. x \in UnclampedSession
    BY DEF Loaded, Session, UnclampedSession
  <1>2. /\ x.history = s.history /\ x.index = s.index /\ x.page = s.page
        /\ x.url = s.url /\ x.document = s.document
        /\ x.hovered = s.hovered /\ x.focused = s.focused /\ x.forms = s.forms
    BY DEF Loaded, Session
  <1>3. SetDocumentSize(s, length) = ClampScroll(x)
    BY DEF SetDocumentSize
  <1> HIDE DEF x
  <1>4. PageAgrees(x) /\ NodesAgree(x)
    BY <1>2 DEF Loaded, PageAgrees, NodesAgree
  <1> QED BY <1>1, <1>2, <1>3, <1>4, ClampGood

\* The session of a new tab.
LEMMA NewSessionGood == Good(NewSession)
  BY DEF NewSession, Good, Session, Size, PageAgrees, NodesAgree, ScrollAgrees

-----------------------------------------------------------------------------
(* Navigations. *)

\* A session with a current entry is good once the document of that entry is shown.
LEMMA ShowDocumentGood ==
    ASSUME NEW s \in Session, s.index \in 1..Len(s.history),
           NEW request \in Request, RequestIsValid(request),
           s.history[s.index].request.url = request.url,
           NEW length \in Nat, loads \in Nat
    PROVE LET c == ShowDocument(s, request, length) IN
          Good(c) /\ c.history = s.history /\ c.index = s.index
  <1> DEFINE n == loads + 1
             u == request.url
             d == [s EXCEPT !.document = n, !.url = u, !.page = u, !.lifecycle = "Complete",
                            !.hovered = 0, !.focused = 0, !.forms = n]
             v == SetDocumentSize(d, length)
             size == [width |-> request.width, height |-> length]
  <1>0. n \in Nat /\ n # 0 /\ u \in Urls \cup {NoUrl}
    BY DEF Request
  <1>3. ShowDocument(s, request, length) = IF v.size.width = 0 THEN SetSize(v, size) ELSE v
    BY DEF ShowDocument
  <1> HIDE DEF n, u
  <1>1. d \in Session
    BY <1>0 DEF Session
  <1>2. /\ d.history = s.history /\ d.index = s.index
        /\ d.page = u /\ d.url = u /\ d.document = n
        /\ d.hovered = 0 /\ d.focused = 0 /\ d.forms = n
    BY DEF Session
  <1>4. size \in Size
    BY DEF Size, Request
  <1> HIDE DEF d, size
  <1>5. PageAgrees(d) /\ NodesAgree(d)
    <2>1. s.index # 0 /\ s.index <= Len(s.history) /\ s.history[s.index].request.url = u
      BY DEF Session, u
    <2> QED BY <1>0, <1>2, <2>1 DEF PageAgrees, NodesAgree
  <1>6. Loaded(d)
    BY <1>1, <1>5 DEF Loaded
  <1>7. Good(v) /\ v.history = s.history /\ v.index = s.index
    BY <1>2, <1>6, SetDocumentSizeGood
  <1> HIDE DEF v
  <1>8. Loaded(v)
    BY <1>7 DEF Good, Loaded
  <1> QED BY <1>3, <1>4, <1>7, <1>8, SetSizeGood

\* The position of a good session lies in its history.
LEMMA PositionInHistory ==
    ASSUME NEW s, Good(s)
    PROVE /\ s \in Session /\ s.history \in Seq(HistoryEntry) /\ Len(s.history) \in Nat
          /\ s.index \in 0..Len(s.history)
          /\ \A i \in 1..Len(s.history) : s.history[i] \in HistoryEntry
  <1>1. s \in Session /\ s.history \in Seq(HistoryEntry) /\ s.index \in Nat
    BY DEF Good, Session
  <1>2. Len(s.history) \in Nat /\ \A i \in 1..Len(s.history) : s.history[i] \in HistoryEntry
    BY <1>1, LenProperties, ElementOfSeq
  <1>3. s.index <= Len(s.history)
    BY <1>1, <1>2 DEF Good, PageAgrees
  <1> QED BY <1>1, <1>2, <1>3

\* An appended entry becomes the current one; those up to the old position stay.
LEMMA AppendHistoryKeeps ==
    ASSUME NEW s, Good(s), NEW request \in Request, RequestIsValid(request)
    PROVE LET c == AppendHistory(s, request) IN
          /\ c \in Session
          /\ c.index \in 1..Len(c.history)
          /\ c.history[c.index].request = request
          /\ Keeps(s, c)
  <1> DEFINE kept == SubSeq(s.history, 1, s.index)
             e == [request |-> request, metadata |-> request.url]
             h == Append(kept, e)
             n == Len(kept) + 1
             c == [s EXCEPT !.history = h, !.index = n]
  <1>1. AppendHistory(s, request) = c
    BY DEF AppendHistory
  <1>2. e \in HistoryEntry /\ e.request = request
    BY DEF HistoryEntry, Request, RequestIsValid
  <1>3. /\ kept \in Seq(HistoryEntry) /\ Len(kept) = s.index
        /\ \A i \in 1..s.index : kept[i] = s.history[i]
    <2>1. s.index \in Nat /\ \A i \in 1..s.index : s.history[i] \in HistoryEntry
      BY PositionInHistory
    <2>2. /\ kept \in Seq(HistoryEntry)
          /\ Len(kept) = IF 1 <= s.index THEN s.index - 1 + 1 ELSE 0
          /\ \A i \in 1..(s.index - 1 + 1) : kept[i] = s.history[1 + i - 1]
      BY <2>1, SubSeqProperties
    <2> QED BY <2>1, <2>2
  <1>4. s \in Session /\ s.index \in Nat
    BY PositionInHistory
  <1> HIDE DEF kept, e
  <1>5. /\ h \in Seq(HistoryEntry) /\ n \in Nat /\ n = s.index + 1
        /\ Len(h) = s.index + 1
        /\ \A i \in 1..s.index : h[i] = s.history[i]
        /\ h[s.index + 1] = e
    BY <1>2, <1>3, <1>4, AppendProperties
  <1> HIDE DEF h, n
  <1>6. c \in Session /\ c.history = h /\ c.index = n
    BY <1>4, <1>5 DEF Session
  <1> QED BY <1>1, <1>2, <1>4, <1>5, <1>6 DEF Keeps

\* Metadata go into an entry without changing a request or the position.
LEMMA ReplaceMetadataKeeps ==
    ASSUME NEW s, Good(s), s.index # 0, NEW request \in Request, RequestIsValid(request)
    PROVE LET c == ReplaceMetadata(s, request) IN
          /\ c \in Session
          /\ c.index = s.index
          /\ Len(c.history) = Len(s.history)
          /\ \A i \in 1..Len(s.history) : c.history[i].request = s.history[i].request
  <1> DEFINE e == [s.history[s.index] EXCEPT !.metadata = request.url]
             h == [s.history EXCEPT ![s.index] = e]
  <1>1. /\ s \in Session /\ s.history \in Seq(HistoryEntry) /\ s.index \in 1..Len(s.history)
        /\ s.history[s.index] \in HistoryEntry
    BY PositionInHistory
  <1>2. ReplaceMetadata(s, request) = [s EXCEPT !.history = h]
    BY <1>1 DEF ReplaceMetadata
  <1>3. e \in HistoryEntry /\ e.request = s.history[s.index].request
    BY <1>1 DEF HistoryEntry, Request, RequestIsValid
  <1> HIDE DEF e
  <1>4. /\ h \in Seq(HistoryEntry) /\ Len(h) = Len(s.history)
        /\ \A i \in 1..Len(s.history) : h[i] = IF i = s.index THEN e ELSE s.history[i]
    BY <1>1, <1>3, ExceptSeq
  <1> HIDE DEF h
  <1>5. LET c == [s EXCEPT !.history = h] IN
        c \in Session /\ c.index = s.index /\ c.history = h
    BY <1>1, <1>4 DEF Session
  <1> QED BY <1>2, <1>3, <1>4, <1>5

\* Going to an entry of the history shows its page.
LEMMA TraverseGood ==
    ASSUME NEW s, Good(s), s.index # 0, NEW target \in 1..Len(s.history),
           RequestIsValid(s.history[target].request),
           NEW length \in Nat, loads \in Nat
    PROVE LET request == s.history[target].request
              c == ShowDocument(MoveTo(ReplaceMetadata(s, request), target), request, length)
          IN Good(c) /\ Keeps(s, c)
  <1> DEFINE request == s.history[target].request
             r == ReplaceMetadata(s, request)
             m == MoveTo(r, target)
             c == ShowDocument(m, request, length)
  <1>1. /\ s.index \in 1..Len(s.history) /\ Len(s.history) \in Nat
        /\ s.history[target] \in HistoryEntry
    BY PositionInHistory
  <1>2. request \in Request
    BY <1>1 DEF HistoryEntry
  <1>3. /\ r \in Session /\ Len(r.history) = Len(s.history)
        /\ \A i \in 1..Len(s.history) : r.history[i].request = s.history[i].request
    BY <1>2, ReplaceMetadataKeeps
  <1> HIDE DEF r
  <1>4. m \in Session /\ m.history = r.history /\ m.index = target
    <2>1. target \in Nat
      BY <1>1
    <2> QED BY <2>1, <1>3 DEF MoveTo, Session
  <1> HIDE DEF m
  <1>5. m.index \in 1..Len(m.history) /\ m.history[m.index].request.url = request.url
    BY <1>3, <1>4
  <1>6. Good(c) /\ c.history = m.history
    BY <1>2, <1>4, <1>5, ShowDocumentGood
  <1>7. Keeps(s, c)
    BY <1>1, <1>3, <1>4, <1>6 DEF Keeps
  <1> QED BY <1>6, <1>7 DEF m, r

\* So does loading the current entry again.
LEMMA ReloadGood ==
    ASSUME NEW s, Good(s), s.index # 0,
           RequestIsValid(s.history[s.index].request),
           NEW length \in Nat, loads \in Nat
    PROVE LET request == s.history[s.index].request
              c == ShowDocument(ReplaceMetadata(s, request), request, length)
          IN Good(c) /\ Keeps(s, c)
  <1>1. /\ s.index \in 1..Len(s.history) /\ s \in Session
    BY PositionInHistory
  <1> DEFINE r == ReplaceMetadata(s, s.history[s.index].request)
  <1>2. s.history[s.index].request \in Request
    BY <1>1, PositionInHistory DEF HistoryEntry
  <1>3. /\ r \in Session /\ r.index = s.index /\ Len(r.history) = Len(s.history)
        /\ \A i \in 1..Len(s.history) : r.history[i].request = s.history[i].request
    BY <1>2, ReplaceMetadataKeeps
  <1>4. MoveTo(r, s.index) = r
    BY <1>3 DEF MoveTo, Session
  <1> QED BY <1>1, <1>4, TraverseGood

\* A failed navigation leaves the session good and its history alone.
LEMMA NavigationFailsGood ==
    ASSUME NEW s, Good(s)
    PROVE Good(NavigationFails(s)) /\ Keeps(s, NavigationFails(s))
  <1> DEFINE c == NavigationFails(s)
  <1>1. c \in Session
    BY DEF NavigationFails, Good, Session
  <1>2. /\ c.history = s.history /\ c.index = s.index /\ c.page = s.page
        /\ c.url = s.url /\ c.document = s.document
        /\ c.hovered = s.hovered /\ c.focused = s.focused /\ c.forms = s.forms
        /\ c.scroll = s.scroll /\ c.length = s.length /\ c.size = s.size
    BY DEF NavigationFails, Good, Session
  <1> HIDE DEF c
  <1>3. PageAgrees(c) /\ NodesAgree(c) /\ ScrollAgrees(c)
    BY <1>2 DEF Good, PageAgrees, NodesAgree, ScrollAgrees
  <1>4. Keeps(s, c)
    BY <1>2, PositionInHistory DEF Keeps
  <1> QED BY <1>1, <1>3, <1>4 DEF Good, c

-----------------------------------------------------------------------------
(* Steps. *)

\* A session keeps its own entries.
LEMMA KeepsItself ==
    ASSUME NEW s, Good(s)
    PROVE Keeps(s, s)
  BY PositionInHistory DEF Keeps

\* The active tab is a tab.
LEMMA ActiveTabIsTab ==
    ASSUME TabsInv, active # 0
    PROVE ActiveTab \in Tabs /\ active \in 1..Len(order) /\ Len(order) \in Nat
  <1>1. order \in Seq(Tabs) /\ Len(order) \in Nat
    BY LenProperties DEF TabsInv
  <1>2. active \in 1..Len(order)
    BY DEF TabsInv, ActiveIsOpen
  <1> QED BY <1>1, <1>2, ElementOfSeq DEF ActiveTab

\* All sessions after a step.
SessionsGood(new) ==
    /\ new \in [Tabs -> Session]
    /\ \A t \in Tabs : Good(new[t])

\* A step that gives the active tab a good session that keeps its entries.
LEMMA ActiveStep ==
    ASSUME ShellInv, active # 0, NEW c, Good(c), Keeps(session[ActiveTab], c)
    PROVE LET new == [session EXCEPT ![ActiveTab] = c] IN
          /\ SessionsGood(new)
          /\ \A t \in Tabs : Keeps(session[t], new[t])
  <1> DEFINE new == [session EXCEPT ![ActiveTab] = c]
  <1>1. ActiveTab \in Tabs
    BY ActiveTabIsTab DEF ShellInv
  <1>2. /\ session \in [Tabs -> Session] /\ c \in Session
        /\ \A t \in Tabs : Good(session[t])
    BY DEF ShellInv, Good
  <1>3. new \in [Tabs -> Session] /\ \A t \in Tabs : new[t] = IF t = ActiveTab THEN c ELSE session[t]
    BY <1>1, <1>2
  <1> HIDE DEF new
  <1>4. \A t \in Tabs : Good(new[t]) /\ Keeps(session[t], new[t])
    BY <1>2, <1>3, KeepsItself
  <1> QED BY <1>3, <1>4 DEF SessionsGood, new

\* What a navigation of the active tab may do to the sessions.
LEMMA LoadStep ==
    ASSUME ShellInv, active # 0, NEW request \in Request, NEW s,
           LoadSucceeds(request, s),
           \A length \in Nat : RequestIsValid(request) =>
               /\ Good(ShowDocument(s, request, length))
               /\ Keeps(session[ActiveTab], ShowDocument(s, request, length))
    PROVE /\ SessionsGood(session')
          /\ \A t \in Tabs : Keeps(session[t], session'[t])
          /\ loads' \in Nat
  <1>1. PICK length \in Heights :
            session' = [session EXCEPT ![ActiveTab] = ShowDocument(s, request, length)]
    BY DEF LoadSucceeds
  <1>2. RequestIsValid(request) /\ loads' = loads + 1 /\ loads \in Nat
    BY DEF LoadSucceeds, ShellInv
  <1>3. length \in Nat
    BY ShellAssumption
  <1> DEFINE c == ShowDocument(s, request, length)
  <1>4. Good(c) /\ Keeps(session[ActiveTab], c)
    BY <1>2, <1>3
  <1>5. session' = [session EXCEPT ![ActiveTab] = c]
    BY <1>1
  <1> HIDE DEF c
  <1>6. LET new == [session EXCEPT ![ActiveTab] = c] IN
        SessionsGood(new) /\ \A t \in Tabs : Keeps(session[t], new[t])
    BY <1>4, ActiveStep
  <1> QED BY <1>2, <1>5, <1>6

\* A failed navigation of the active tab.
LEMMA FailStep ==
    ASSUME ShellInv, active # 0, LoadFails
    PROVE /\ SessionsGood(session')
          /\ \A t \in Tabs : Keeps(session[t], session'[t])
          /\ loads' \in Nat
  <1>1. ActiveTab \in Tabs
    BY ActiveTabIsTab DEF ShellInv
  <1> DEFINE c == NavigationFails(session[ActiveTab])
  <1>2. Good(c) /\ Keeps(session[ActiveTab], c)
    BY <1>1, NavigationFailsGood DEF ShellInv
  <1>3. session' = [session EXCEPT ![ActiveTab] = c] /\ loads' = loads
    BY <1>1 DEF LoadFails, ShellInv
  <1> HIDE DEF c
  <1> QED BY <1>2, <1>3, ActiveStep DEF ShellInv

\* A step that leaves the sessions alone.
LEMMA IdleStep ==
    ASSUME ShellInv, UNCHANGED session
    PROVE SessionsGood(session') /\ \A t \in Tabs : Keeps(session[t], session'[t])
  BY KeepsItself DEF ShellInv, SessionsGood

\* A request to follow a link or the address bar appends its entry.
LEMMA AppendStep ==
    ASSUME ShellInv, active # 0, NEW request \in Request,
           LoadSucceeds(request, AppendHistory(session[ActiveTab], request))
    PROVE /\ SessionsGood(session')
          /\ \A t \in Tabs : Keeps(session[t], session'[t])
          /\ loads' \in Nat
  <1> DEFINE s == session[ActiveTab]
             a == AppendHistory(s, request)
  <1>1. Good(s)
    BY ActiveTabIsTab DEF ShellInv
  <1>2. RequestIsValid(request) /\ loads \in Nat
    BY DEF LoadSucceeds, ShellInv
  <1> HIDE DEF s
  <1>3. /\ a \in Session /\ a.index \in 1..Len(a.history)
        /\ a.history[a.index].request = request /\ Keeps(s, a)
    BY <1>1, <1>2, AppendHistoryKeeps
  <1> HIDE DEF a
  <1>4. ASSUME NEW length \in Nat
        PROVE Good(ShowDocument(a, request, length)) /\ Keeps(s, ShowDocument(a, request, length))
    <2> DEFINE c == ShowDocument(a, request, length)
    <2>1. Good(c) /\ c.history = a.history
      BY <1>2, <1>3, ShowDocumentGood
    <2> QED BY <2>1, <1>3 DEF Keeps
  <1>5. LoadSucceeds(request, a)
    BY DEF s, a
  <1>6. \A length \in Nat :
            Good(ShowDocument(a, request, length)) /\ Keeps(session[ActiveTab], ShowDocument(a, request, length))
    BY <1>4 DEF s
  <1> QED BY <1>5, <1>6, LoadStep

\* Back and forward.
LEMMA TraverseStep ==
    ASSUME ShellInv, active # 0, NEW enabled, NEW target,
           enabled => /\ session[ActiveTab].index # 0
                      /\ target \in 1..Len(session[ActiveTab].history),
           Traverse(enabled, target)
    PROVE /\ SessionsGood(session')
          /\ \A t \in Tabs : Keeps(session[t], session'[t])
          /\ loads' \in Nat
          /\ \E state \in {"Ready", "Error"} : SyncStatus(state)
  <1> DEFINE s == session[ActiveTab]
             request == s.history[target].request
             m == MoveTo(ReplaceMetadata(s, request), target)
  <1>1. Good(s) /\ loads \in Nat
    BY ActiveTabIsTab DEF ShellInv
  <1>2. CASE NothingToLoad(enabled)
    BY <1>1, <1>2, IdleStep DEF NothingToLoad
  <1>3. CASE enabled /\ LoadFails /\ SyncStatus("Error")
    BY <1>3, FailStep
  <1>4. CASE enabled /\ LoadSucceeds(request, m) /\ SyncStatus("Ready")
    <2>1. s.index # 0 /\ target \in 1..Len(s.history)
      BY <1>4
    <2>2. request \in Request /\ RequestIsValid(request)
      BY <1>1, <1>4, <2>1, PositionInHistory DEF HistoryEntry, LoadSucceeds
    <2> HIDE DEF s
    <2>3. \A length \in Nat :
              /\ Good(ShowDocument(m, request, length))
              /\ Keeps(s, ShowDocument(m, request, length))
      BY <1>1, <2>1, <2>2, TraverseGood
    <2> HIDE DEF m, request
    <2>4. \A length \in Nat :
              /\ Good(ShowDocument(m, request, length))
              /\ Keeps(session[ActiveTab], ShowDocument(m, request, length))
      BY <2>3 DEF s
    <2> QED BY <1>4, <2>2, <2>4, LoadStep
  <1> QED BY <1>2, <1>3, <1>4 DEF Traverse

\* Reload.
LEMMA ReloadStep ==
    ASSUME ShellInv, Reload
    PROVE /\ SessionsGood(session')
          /\ \A t \in Tabs : Keeps(session[t], session'[t])
          /\ loads' \in Nat
          /\ \E state \in {"Ready", "Error"} : SyncStatus(state)
  <1> DEFINE s == session[ActiveTab]
             request == s.history[s.index].request
             m == ReplaceMetadata(s, request)
  <1>0. active # 0
    BY DEF Reload
  <1>1. Good(s) /\ loads \in Nat /\ s.index \in Nat
    BY <1>0, ActiveTabIsTab DEF ShellInv, Good, Session
  <1>2. CASE NothingToLoad(s.index > 0)
    BY <1>1, <1>2, IdleStep DEF NothingToLoad
  <1>3. CASE LoadFails /\ SyncStatus("Error")
    BY <1>0, <1>3, FailStep
  <1>4. CASE s.index > 0 /\ LoadSucceeds(request, m) /\ SyncStatus("Ready")
    <2>1. s.index # 0 /\ s.index \in 1..Len(s.history)
      BY <1>1, <1>4, PositionInHistory
    <2>2. request \in Request /\ RequestIsValid(request)
      BY <1>1, <1>4, <2>1, PositionInHistory DEF HistoryEntry, LoadSucceeds
    <2> HIDE DEF s
    <2>3. \A length \in Nat :
              /\ Good(ShowDocument(m, request, length))
              /\ Keeps(s, ShowDocument(m, request, length))
      BY <1>1, <2>1, <2>2, ReloadGood
    <2> HIDE DEF m, request
    <2>4. \A length \in Nat :
              /\ Good(ShowDocument(m, request, length))
              /\ Keeps(session[ActiveTab], ShowDocument(m, request, length))
      BY <2>3 DEF s
    <2> QED BY <1>0, <1>4, <2>2, <2>4, LoadStep
  <1> QED BY <1>2, <1>3, <1>4 DEF Reload

-----------------------------------------------------------------------------
(* Tabs. *)

\* Opening a tab that is not open keeps the tabs distinct.
LEMMA NewTabTabs ==
    ASSUME TabsInv, NEW t \in Tabs, NewTab(t)
    PROVE TabsInv'
  <1>1. order \in Seq(Tabs) /\ Len(order) \in Nat
    BY LenProperties DEF TabsInv
  <1>2. /\ order' \in Seq(Tabs) /\ order' # <<>> /\ Len(order') = Len(order) + 1
        /\ \A i \in 1..Len(order) : order'[i] = order[i]
        /\ order'[Len(order) + 1] = t
    BY <1>1, AppendProperties DEF NewTab
  <1>3. \A i \in 1..Len(order) : order[i] # t
    BY DEF NewTab, OpenTabs
  <1>4. Distinct(order')
    BY <1>1, <1>2, <1>3 DEF Distinct, TabsInv
  <1>5. ActiveIsOpen'
    BY <1>1, <1>2 DEF ActiveIsOpen, NewTab
  <1> QED BY <1>2, <1>4, <1>5 DEF TabsInv

\* The tabs without the i-th one.
LEMMA WithoutTab ==
    ASSUME NEW seq \in Seq(Tabs), NEW i \in 1..Len(seq)
    PROVE LET w == Without(seq, i) IN
          /\ w \in Seq(Tabs)
          /\ Len(w) = Len(seq) - 1
          /\ \A j \in 1..Len(w) : w[j] = IF j < i THEN seq[j] ELSE seq[j + 1]
  <1> DEFINE a == SubSeq(seq, 1, i - 1)
             b == SubSeq(seq, i + 1, Len(seq))
  <1>1. Len(seq) \in Nat /\ \A j \in 1..Len(seq) : seq[j] \in Tabs
    BY LenProperties, ElementOfSeq
  <1>2. /\ a \in Seq(Tabs) /\ Len(a) = i - 1
        /\ \A j \in 1..(i - 1) : a[j] = seq[j]
    <2>1. i - 1 \in Int /\ \A j \in 1..(i - 1) : seq[j] \in Tabs
      BY <1>1
    <2>2. /\ a \in Seq(Tabs)
          /\ Len(a) = IF 1 <= i - 1 THEN i - 1 - 1 + 1 ELSE 0
          /\ \A j \in 1..(i - 1 - 1 + 1) : a[j] = seq[1 + j - 1]
      BY <2>1, SubSeqProperties
    <2> QED BY <1>1, <2>2
  <1>3. /\ b \in Seq(Tabs) /\ Len(b) = Len(seq) - i
        /\ \A j \in 1..(Len(seq) - i) : b[j] = seq[i + j]
    <2>1. i + 1 \in Int /\ Len(seq) \in Int /\ \A j \in (i + 1)..Len(seq) : seq[j] \in Tabs
      BY <1>1
    <2>2. /\ b \in Seq(Tabs)
          /\ Len(b) = IF i + 1 <= Len(seq) THEN Len(seq) - (i + 1) + 1 ELSE 0
          /\ \A j \in 1..(Len(seq) - (i + 1) + 1) : b[j] = seq[i + 1 + j - 1]
      BY <2>1, SubSeqProperties
    <2> QED BY <1>1, <2>2
  <1>4. Without(seq, i) = a \o b
    BY DEF Without
  <1> HIDE DEF a, b
  <1>5. /\ a \o b \in Seq(Tabs) /\ Len(a \o b) = Len(a) + Len(b)
        /\ \A j \in 1..(Len(a) + Len(b)) :
               (a \o b)[j] = IF j <= Len(a) THEN a[j] ELSE b[j - Len(a)]
    BY <1>2, <1>3, ConcatProperties
  <1>6. ASSUME NEW j \in 1..(Len(seq) - 1)
        PROVE (a \o b)[j] = IF j < i THEN seq[j] ELSE seq[j + 1]
    <2>1. CASE j < i
      BY <1>1, <1>2, <1>3, <1>5, <2>1
    <2>2. CASE ~(j < i)
      <3>1. j - (i - 1) \in 1..(Len(seq) - i) /\ i + (j - (i - 1)) = j + 1
        BY <1>1, <2>2
      <3>2. (a \o b)[j] = b[j - (i - 1)]
        BY <1>1, <1>2, <1>3, <1>5, <2>2
      <3>3. b[j - (i - 1)] = seq[i + (j - (i - 1))]
        BY <1>3, <3>1
      <3>4. b[j - (i - 1)] = seq[j + 1]
        BY <3>1, <3>3
      <3> QED BY <2>2, <3>2, <3>4
    <2> QED BY <2>1, <2>2
  <1> DEFINE w == a \o b
  <1>7. w \in Seq(Tabs) /\ Len(w) = Len(seq) - 1
    BY <1>1, <1>2, <1>3, <1>5
  <1>8. \A j \in 1..Len(w) : w[j] = IF j < i THEN seq[j] ELSE seq[j + 1]
    BY <1>6, <1>7
  <1> HIDE DEF w
  <1> QED BY <1>4, <1>7, <1>8 DEF w

\* Closing a tab keeps the others distinct, the active one open, and the closed one out.
LEMMA CloseTabTabs ==
    ASSUME TabsInv, NEW i \in 1..Len(order), CloseTab(i)
    PROVE TabsInv' /\ order[i] \in Tabs /\ order[i] \notin OpenTabs'
  <1>1. order \in Seq(Tabs) /\ Len(order) \in Nat /\ order[i] \in Tabs
    BY LenProperties, ElementOfSeq DEF TabsInv
  <1>2. /\ order' \in Seq(Tabs) /\ Len(order') = Len(order) - 1
        /\ \A j \in 1..Len(order') : order'[j] = IF j < i THEN order[j] ELSE order[j + 1]
    BY <1>1, WithoutTab DEF CloseTab
  <1>3. \A j \in 1..Len(order') : order'[j] # order[i]
    BY <1>1, <1>2 DEF TabsInv, Distinct
  <1>4. Distinct(order')
    BY <1>1, <1>2 DEF TabsInv, Distinct
  <1>5. ActiveIsOpen'
    <2>1. active \in 1..Len(order) /\ active' = Min2(active, Len(order) - 1)
      <3>1. order # <<>>
        BY <1>1
      <3> QED BY <3>1 DEF TabsInv, ActiveIsOpen, CloseTab
    <2>2. CASE Len(order) = 1
      <3>1. order' = <<>> /\ active' = 0
        <4>1. Len(order') = 0
          BY <1>2, <2>2
        <4> QED BY <1>2, <2>1, <2>2, <4>1, EmptySeq DEF Min2
      <3> QED BY <3>1 DEF ActiveIsOpen
    <2>3. CASE Len(order) > 1
      <3>1. order' # <<>> /\ active' \in 1..Len(order')
        BY <1>1, <1>2, <2>1, <2>3 DEF Min2
      <3> QED BY <3>1 DEF ActiveIsOpen
    <2>4. Len(order) = 1 \/ Len(order) > 1
      <3> DEFINE n == Len(order)
      <3>1. n \in Nat /\ i \in 1..n
        BY <1>1
      <3> HIDE DEF n
      <3>2. n = 1 \/ n > 1
        BY <3>1
      <3> QED BY <3>2 DEF n
    <2> QED BY <2>2, <2>3, <2>4
  <1> QED BY <1>1, <1>2, <1>3, <1>4, <1>5 DEF TabsInv, OpenTabs

-----------------------------------------------------------------------------
(* The theorems. *)

\* The invariant holds in the initial states.
LEMMA InitGood == Init => ShellInv
  <1> SUFFICES ASSUME Init PROVE ShellInv
    OBVIOUS
  <1>1. PICK t \in Tabs, w \in Widths, h \in Heights :
            /\ order = <<t>>
            /\ window = [width |-> w, height |-> h]
            /\ session = [u \in Tabs |-> IF u = t THEN SetSize(NewSession, window) ELSE NewSession]
    BY DEF Init
  <1>2. window \in Size
    BY <1>1, ShellAssumption DEF Size
  <1>3. Good(SetSize(NewSession, window)) /\ Good(NewSession)
    BY <1>2, NewSessionGood, SetSizeGood DEF Good, Loaded
  <1>4. session \in [Tabs -> Session] /\ \A u \in Tabs : Good(session[u])
    BY <1>1, <1>3 DEF Good
  <1>5. TabsInv
    <2>1. order \in Seq(Tabs) /\ Len(order) = 1 /\ active = 1 /\ order # <<>>
      BY <1>1 DEF Init
    <2> QED BY <2>1 DEF TabsInv, Distinct, ActiveIsOpen
  <1> QED BY <1>2, <1>4, <1>5 DEF ShellInv, Init

\* What a step does to the sessions of tabs that stay open.
KeepsAll == \A t \in OpenTabs \cap OpenTabs' : Keeps(session[t], session'[t])

\* The open tabs are tabs.
LEMMA OpenTabsAreTabs == TabsInv => OpenTabs \subseteq Tabs
  BY ElementOfSeq, LenProperties DEF TabsInv, OpenTabs

\* A step that changes neither the tabs nor the window.
LEMMA SameTabs ==
    ASSUME ShellInv, UNCHANGED <<order, active, window>>,
           SessionsGood(session'), \A t \in Tabs : Keeps(session[t], session'[t]),
           loads' \in Nat, pressed' \in BOOLEAN,
           chrome' \in [address : Urls \cup {NoUrl}, state : {"Idle", "Ready", "Error"}]
    PROVE ShellInv' /\ KeepsAll
  <1>1. TabsInv' /\ window' \in Size
    BY DEF ShellInv, TabsInv, ActiveIsOpen
  <1>2. KeepsAll
    BY OpenTabsAreTabs DEF KeepsAll, ShellInv
  <1> QED BY <1>1, <1>2 DEF ShellInv, SessionsGood

\* The chrome shows the result of a navigation.
LEMMA SyncStatusTyped ==
    ASSUME ShellInv, NEW state \in {"Ready", "Error"}, SyncStatus(state)
    PROVE chrome' \in [address : Urls \cup {NoUrl}, state : {"Idle", "Ready", "Error"}]
  BY DEF ShellInv, SyncStatus

\* Every step keeps the invariant and the entries to go back to.
LEMMA ShellStep ==
    ASSUME ShellInv, Next
    PROVE ShellInv' /\ KeepsAll
  <1>0. /\ loads \in Nat /\ pressed \in BOOLEAN /\ window \in Size /\ TabsInv
        /\ chrome \in [address : Urls \cup {NoUrl}, state : {"Idle", "Ready", "Error"}]
        /\ session \in [Tabs -> Session] /\ \A t \in Tabs : Good(session[t])
    BY DEF ShellInv
  <1>1. ASSUME NEW u \in Urls, SetAddress(u) PROVE ShellInv' /\ KeepsAll
    BY <1>0, <1>1, IdleStep, SameTabs DEF SetAddress
  <1>2. ASSUME NEW u \in Urls, PressLink(u) PROVE ShellInv' /\ KeepsAll
    <2> DEFINE request == [url |-> u, width |-> session[ActiveTab].size.width]
    <2>1. active # 0 /\ ActiveTab \in Tabs
      BY <1>0, <1>2, ActiveTabIsTab DEF PressLink
    <2>2. request \in Request
      BY <1>0, <2>1 DEF Request, Session, Size
    <2>3. \/ LoadSucceeds(request, AppendHistory(session[ActiveTab], request))
          \/ LoadFails
      BY <1>2 DEF PressLink
    <2>4. pressed' \in BOOLEAN /\ UNCHANGED <<order, active, window, chrome>>
      BY <1>2 DEF PressLink
    <2> HIDE DEF request
    <2> QED BY <1>0, <2>1, <2>2, <2>3, <2>4, AppendStep, FailStep, SameTabs
  <1>3. CASE NoActiveTab
    BY <1>0, <1>3, IdleStep, SameTabs, SyncStatusTyped DEF NoActiveTab, Nav
  <1>4. CASE Navigate
    <2>1. active # 0 /\ ActiveTab \in Tabs /\ UNCHANGED <<order, active, window, pressed>>
      BY <1>0, <1>4, ActiveTabIsTab DEF Navigate, Nav
    <2>2. AddressRequest \in Request
      <3>1. session[ActiveTab].size.width \in Nat /\ DefaultWidth \in Nat
        BY <1>0, <2>1, ShellAssumption DEF Session, Size
      <3> QED BY <1>0, <3>1 DEF AddressRequest, Request
    <2>3. \/ /\ LoadSucceeds(AddressRequest, AppendHistory(session[ActiveTab], AddressRequest))
             /\ SyncStatus("Ready")
          \/ LoadFails /\ SyncStatus("Error")
      BY <1>4 DEF Navigate
    <2>4. chrome' \in [address : Urls \cup {NoUrl}, state : {"Idle", "Ready", "Error"}]
      BY <2>3, SyncStatusTyped
    <2> QED BY <1>0, <2>1, <2>2, <2>3, <2>4, AppendStep, FailStep, SameTabs
  <1>5. CASE Reload
    <2>1. UNCHANGED <<order, active, window, pressed>>
      BY <1>5 DEF Reload, Nav
    <2> QED BY <1>0, <1>5, <2>1, ReloadStep, SameTabs, SyncStatusTyped
  <1>6. CASE Back
    <2> DEFINE s == session[ActiveTab]
    <2>1. active # 0 /\ Traverse(CanGoBack(s), s.index - 1) /\ UNCHANGED <<order, active, window, pressed>>
      BY <1>6 DEF Back, Nav
    <2>2. Good(s)
      BY <1>0, <2>1, ActiveTabIsTab
    <2>3. CanGoBack(s) => s.index # 0 /\ s.index - 1 \in 1..Len(s.history)
      BY <2>2, PositionInHistory DEF CanGoBack
    <2> QED BY <1>0, <2>1, <2>3, TraverseStep, SameTabs, SyncStatusTyped
  <1>7. CASE Forward
    <2> DEFINE s == session[ActiveTab]
    <2>1. active # 0 /\ Traverse(CanGoForward(s), s.index + 1) /\ UNCHANGED <<order, active, window, pressed>>
      BY <1>7 DEF Forward, Nav
    <2>2. Good(s)
      BY <1>0, <2>1, ActiveTabIsTab
    <2>3. CanGoForward(s) => s.index # 0 /\ s.index + 1 \in 1..Len(s.history)
      BY <2>2, PositionInHistory DEF CanGoForward
    <2> QED BY <1>0, <2>1, <2>3, TraverseStep, SameTabs, SyncStatusTyped
  <1>8. ASSUME NEW t \in Tabs, NewTab(t) PROVE ShellInv' /\ KeepsAll
    <2> DEFINE c == SetSize(NewSession, window)
    <2>1. Good(c) /\ c \in Session
      BY <1>0, NewSessionGood, SetSizeGood DEF Good, Loaded
    <2>2. session' = [session EXCEPT ![t] = c] /\ t \notin OpenTabs /\ UNCHANGED <<window, pressed, chrome, loads>>
      BY <1>8 DEF NewTab
    <2> HIDE DEF c
    <2>3. session' \in [Tabs -> Session] /\ \A u \in Tabs : session'[u] = IF u = t THEN c ELSE session[u]
      BY <1>0, <2>1, <2>2
    <2>4. KeepsAll
      BY <1>0, <2>2, <2>3, OpenTabsAreTabs, KeepsItself DEF KeepsAll
    <2>5. TabsInv'
      BY <1>0, <1>8, NewTabTabs
    <2>6. \A u \in Tabs : Good(session'[u])
      BY <1>0, <2>1, <2>3
    <2> QED BY <1>0, <2>2, <2>3, <2>4, <2>5, <2>6 DEF ShellInv
  <1>9. ASSUME NEW i \in 1..Len(order), CloseTab(i) PROVE ShellInv' /\ KeepsAll
    <2>1. TabsInv' /\ order[i] \in Tabs /\ order[i] \notin OpenTabs'
      BY <1>0, <1>9, CloseTabTabs
    <2>2. session' = [session EXCEPT ![order[i]] = NewSession] /\ UNCHANGED <<window, pressed, chrome, loads>>
      BY <1>9 DEF CloseTab
    <2>3. Good(NewSession) /\ NewSession \in Session
      BY NewSessionGood DEF Good
    <2>4. session' \in [Tabs -> Session]
          /\ \A u \in Tabs : session'[u] = IF u = order[i] THEN NewSession ELSE session[u]
      BY <1>0, <2>1, <2>2, <2>3
    <2>5. KeepsAll
      BY <1>0, <2>1, <2>4, OpenTabsAreTabs, KeepsItself DEF KeepsAll
    <2>6. \A u \in Tabs : Good(session'[u])
      BY <1>0, <2>3, <2>4
    <2> QED BY <1>0, <2>1, <2>2, <2>4, <2>5, <2>6 DEF ShellInv
  <1>10. CASE CloseActiveTab
    <2>1. active \in 1..Len(order) /\ CloseTab(active)
      BY <1>0, <1>10, ActiveTabIsTab DEF CloseActiveTab
    <2> QED BY <1>9, <2>1
  <1>11. ASSUME NEW i \in 1..Len(order), SwitchToTab(i) PROVE ShellInv' /\ KeepsAll
    <2>1. active' = i /\ UNCHANGED <<order, session, window, pressed, chrome, loads>>
      BY <1>11 DEF SwitchToTab
    <2>2. TabsInv'
      <3>1. order # <<>>
        BY <1>0, LenProperties DEF TabsInv
      <3> QED BY <1>0, <2>1, <3>1 DEF TabsInv, ActiveIsOpen, Distinct
    <2>3. KeepsAll
      BY <1>0, <2>1, OpenTabsAreTabs, KeepsItself DEF KeepsAll
    <2> QED BY <1>0, <2>1, <2>2, <2>3 DEF ShellInv
  <1>12. ASSUME NEW c, active # 0, ActiveBecomes(c), Good(c), pressed' \in BOOLEAN,
                Keeps(session[ActiveTab], c)
         PROVE ShellInv' /\ KeepsAll
    <2>1. session' = [session EXCEPT ![ActiveTab] = c] /\ UNCHANGED <<order, active, window, chrome, loads>>
      BY <1>12 DEF ActiveBecomes
    <2>2. LET new == [session EXCEPT ![ActiveTab] = c] IN
          SessionsGood(new) /\ \A t \in Tabs : Keeps(session[t], new[t])
      BY <1>12, ActiveStep
    <2> QED BY <1>0, <1>12, <2>1, <2>2, SameTabs
  <1>13. CASE PointerMove
    <2> DEFINE s == session[ActiveTab]
    <2>1. PICK hit \in BOOLEAN : ActiveBecomes([s EXCEPT !.hovered = IF hit THEN s.document ELSE 0])
      BY <1>13 DEF PointerMove
    <2> DEFINE n == IF hit THEN s.document ELSE 0
    <2>2. active # 0 /\ pressed' \in BOOLEAN /\ Good(s)
      BY <1>0, <1>13, ActiveTabIsTab DEF PointerMove
    <2>3. n \in {0, s.document} /\ n \in Nat
      BY <2>2 DEF Good, Session
    <2> HIDE DEF s, n
    <2>4. LET c == [s EXCEPT !.hovered = n] IN Good(c) /\ Keeps(s, c)
      <3> DEFINE c == [s EXCEPT !.hovered = n]
      <3>1. c \in Session
        BY <2>2, <2>3 DEF Good, Session
      <3>2. /\ c.history = s.history /\ c.index = s.index /\ c.page = s.page
            /\ c.url = s.url /\ c.document = s.document
            /\ c.hovered = n /\ c.focused = s.focused /\ c.forms = s.forms
            /\ c.scroll = s.scroll /\ c.length = s.length /\ c.size = s.size
        BY <2>2 DEF Good, Session
      <3> HIDE DEF c
      <3>3. PageAgrees(c) /\ NodesAgree(c) /\ ScrollAgrees(c)
        BY <2>2, <2>3, <3>2 DEF Good, PageAgrees, NodesAgree, ScrollAgrees
      <3>4. Keeps(s, c)
        BY <2>2, <3>2, PositionInHistory DEF Keeps
      <3> QED BY <3>1, <3>3, <3>4 DEF Good, c
    <2> QED BY <1>12, <2>1, <2>2, <2>4 DEF s, n
  <1>14. CASE PressControl
    <2> DEFINE s == session[ActiveTab]
    <2>1. ActiveBecomes([s EXCEPT !.focused = s.forms])
      BY <1>14 DEF PressControl
    <2>2. active # 0 /\ pressed' \in BOOLEAN /\ Good(s)
      BY <1>0, <1>14, ActiveTabIsTab DEF PressControl
    <2> HIDE DEF s
    <2>3. LET c == [s EXCEPT !.focused = s.forms] IN Good(c) /\ Keeps(s, c)
      <3> DEFINE c == [s EXCEPT !.focused = s.forms]
      <3>1. c \in Session
        BY <2>2 DEF Good, Session
      <3>2. /\ c.history = s.history /\ c.index = s.index /\ c.page = s.page
            /\ c.url = s.url /\ c.document = s.document
            /\ c.hovered = s.hovered /\ c.focused = s.forms /\ c.forms = s.forms
            /\ c.scroll = s.scroll /\ c.length = s.length /\ c.size = s.size
        BY <2>2 DEF Good, Session
      <3> HIDE DEF c
      <3>3. PageAgrees(c) /\ NodesAgree(c) /\ ScrollAgrees(c)
        BY <2>2, <3>2 DEF Good, PageAgrees, NodesAgree, ScrollAgrees
      <3>4. Keeps(s, c)
        BY <2>2, <3>2, PositionInHistory DEF Keeps
      <3> QED BY <3>1, <3>3, <3>4 DEF Good, c
    <2> QED BY <1>12, <2>1, <2>2, <2>3 DEF s
  <1>15. ASSUME NEW y \in Int, active # 0, ActiveBecomes(ScrollTo(session[ActiveTab], y)),
                pressed' \in BOOLEAN
         PROVE ShellInv' /\ KeepsAll
    <2> DEFINE s == session[ActiveTab]
               c == ScrollTo(s, y)
    <2>1. Good(s)
      BY <1>0, <1>15, ActiveTabIsTab
    <2>2. Good(c) /\ c.history = s.history
      BY <2>1, ScrollToGood DEF Good, Loaded
    <2>3. Keeps(s, c)
      BY <2>1, <2>2, PositionInHistory DEF Keeps
    <2> QED BY <1>12, <1>15, <2>2, <2>3
  <1>16. ASSUME NEW y \in Offsets, PressFragment(y) PROVE ShellInv' /\ KeepsAll
    BY <1>15, <1>16, ShellAssumption DEF PressFragment
  <1>17. ASSUME NEW y \in Offsets, Scroll(y) PROVE ShellInv' /\ KeepsAll
    <2> DEFINE s == session[ActiveTab]
    <2>1. active # 0 /\ ActiveBecomes(ScrollTo(s, s.scroll + y)) /\ pressed' \in BOOLEAN
      BY <1>0, <1>17 DEF Scroll
    <2>2. s.scroll + y \in Int
      BY <1>0, <2>1, ActiveTabIsTab, ShellAssumption DEF Session
    <2> QED BY <1>15, <2>1, <2>2
  <1>18. CASE PressNothing \/ PointerRelease
    <2>1. pressed' \in BOOLEAN /\ UNCHANGED <<order, active, session, window, chrome, loads>>
      BY <1>18 DEF PressNothing, PointerRelease
    <2> QED BY <1>0, <2>1, IdleStep, SameTabs
  <1>19. ASSUME NEW size \in [width : Widths, height : Heights], Resize(size)
         PROVE ShellInv' /\ KeepsAll
    <2>1. size \in Size
      BY ShellAssumption DEF Size
    <2>2. /\ window' = size /\ UNCHANGED <<order, active, pressed, chrome, loads>>
          /\ session' = [t \in Tabs |-> IF t \in OpenTabs THEN SetSize(session[t], size) ELSE session[t]]
      BY <1>19 DEF Resize
    <2>3. \A t \in Tabs : LET c == SetSize(session[t], size) IN
              Good(c) /\ Keeps(session[t], c) /\ c \in Session
      <3> TAKE t \in Tabs
      <3> DEFINE s == session[t]
                 c == SetSize(s, size)
      <3>1. Good(s) /\ Loaded(s)
        BY <1>0 DEF Good, Loaded
      <3> HIDE DEF s
      <3>2. Good(c) /\ c.history = s.history
        BY <2>1, <3>1, SetSizeGood
      <3> HIDE DEF c
      <3>3. Keeps(s, c)
        BY <3>1, <3>2, PositionInHistory DEF Keeps
      <3> QED BY <3>2, <3>3 DEF Good, s, c
    <2>4. SessionsGood(session') /\ \A t \in Tabs : Keeps(session[t], session'[t])
      BY <1>0, <2>2, <2>3, KeepsItself DEF SessionsGood
    <2>5. TabsInv' /\ KeepsAll
      BY <1>0, <2>2, <2>4, OpenTabsAreTabs DEF TabsInv, ActiveIsOpen, KeepsAll
    <2> QED BY <1>0, <2>1, <2>2, <2>4, <2>5 DEF ShellInv, SessionsGood
  <1> QED BY <1>1, <1>2, <1>3, <1>4, <1>5, <1>6, <1>7, <1>8, <1>9, <1>10, <1>11,
             <1>13, <1>14, <1>16, <1>17, <1>18, <1>19 DEF Next

\* A stuttering step keeps everything.
LEMMA ShellStutter ==
    ASSUME ShellInv, UNCHANGED vars
    PROVE ShellInv' /\ KeepsAll
  BY IdleStep, SameTabs DEF ShellInv, vars

\* The invariant holds in every behaviour.
LEMMA ShellInvariant == Spec => []ShellInv
  <1>1. ShellInv /\ [Next]_vars => ShellInv'
    BY ShellStep, ShellStutter
  <1> QED BY <1>1, InitGood, PTL DEF Spec

\* For any set of tabs and pages, and however navigations end, a session shows the
\* page of its current history entry (BrowserSession::commit, back, forward).
THEOREM PagesMatchHistory == Spec => []PageIsCurrentEntry
  <1>1. ShellInv => PageIsCurrentEntry
    <2> SUFFICES ASSUME ShellInv, NEW t \in OpenTabs PROVE PageAgrees(session[t])
      BY DEF PageIsCurrentEntry, PageAgrees
    <2> QED BY OpenTabsAreTabs DEF ShellInv, Good
  <1> QED BY <1>1, ShellInvariant, PTL

\* No session keeps a pointer into a document that was replaced.
THEOREM NodesAreAlive == Spec => []NodesBelongToDocument
  <1>1. ShellInv => NodesBelongToDocument
    <2> SUFFICES ASSUME ShellInv, NEW t \in OpenTabs PROVE NodesAgree(session[t])
      BY DEF NodesBelongToDocument, NodesAgree
    <2> QED BY OpenTabsAreTabs DEF ShellInv, Good
  <1> QED BY <1>1, ShellInvariant, PTL

\* Scroll positions lie in the document, for windows and documents of any height
\* (Viewport::clamp_scroll).
THEOREM ScrollIsClamped == Spec => []ScrollInDocument
  <1>1. ShellInv => ScrollInDocument
    <2> SUFFICES ASSUME ShellInv, NEW t \in OpenTabs PROVE ScrollAgrees(session[t])
      BY DEF ScrollInDocument, ScrollAgrees
    <2> QED BY OpenTabsAreTabs DEF ShellInv, Good
  <1> QED BY <1>1, ShellInvariant, PTL

\* The active tab is one of the open tabs (BrowserApplication::active_session).
THEOREM ActiveTabExists == Spec => []ActiveIsOpen
  <1>1. ShellInv => ActiveIsOpen
    BY DEF ShellInv, TabsInv
  <1> QED BY <1>1, ShellInvariant, PTL

\* No step changes an entry one can go back to (BrowserSession::commit).
THEOREM BackEntriesAreKept == Spec => BackEntriesKept
  <1>1. KeepsAll => \A t \in OpenTabs \cap OpenTabs' :
                        LET s == session[t] IN
                        /\ s.index <= Len(session'[t].history)
                        /\ \A i \in 1..s.index :
                               session'[t].history[i].request = s.history[i].request
    BY DEF KeepsAll, Keeps
  <1>2. ShellInv /\ [Next]_vars => KeepsAll
    BY ShellStep, ShellStutter
  <1> QED BY <1>1, <1>2, ShellInvariant, PTL DEF Spec, BackEntriesKept

-----------------------------------------------------------------------------
(* The size of the viewport, and the sessions of the other tabs. *)

\* The variables of the shell have their types: every session of every tab, its
\* history and its viewport, and the position of the active tab.
THEOREM ShellTypeCorrect == Spec => []TypeOK
  <1>1. ShellInv => TypeOK
    <2>1. ShellInv => active \in Nat
      <3> SUFFICES ASSUME ShellInv PROVE active \in Nat
        OBVIOUS
      <3>1. order \in Seq(Tabs) /\ Len(order) \in Nat
        BY LenProperties DEF ShellInv, TabsInv
      <3> QED BY <3>1 DEF ShellInv, TabsInv, ActiveIsOpen
    <2> QED BY <2>1 DEF ShellInv, TabsInv, TypeOK
  <1> QED BY <1>1, ShellInvariant, PTL

HasSize(x) == "size" \in DOMAIN x

LEMMA ClampKeepsSize ==
    ASSUME NEW x, HasSize(x)
    PROVE ClampScroll(x).size = x.size /\ HasSize(ClampScroll(x))
  BY DEF ClampScroll, HasSize

\* Only setting the size of the viewport changes it.
LEMMA ViewportSizes ==
    ASSUME NEW s, HasSize(s)
    PROVE /\ \A size : SetSize(s, size).size = size
          /\ \A y : ScrollTo(s, y).size = s.size
          /\ \A length : SetDocumentSize(s, length).size = s.size
          /\ \A length : HasSize(SetDocumentSize(s, length))
  <1>1. ASSUME NEW size PROVE SetSize(s, size).size = size
    <2>1. HasSize([s EXCEPT !.size = size]) /\ [s EXCEPT !.size = size].size = size
      BY DEF HasSize
    <2> QED BY <2>1, ClampKeepsSize DEF SetSize
  <1>2. ASSUME NEW y PROVE ScrollTo(s, y).size = s.size
    <2>1. HasSize([s EXCEPT !.scroll = y]) /\ [s EXCEPT !.scroll = y].size = s.size
      BY DEF HasSize
    <2> QED BY <2>1, ClampKeepsSize DEF ScrollTo
  <1>3. ASSUME NEW length PROVE SetDocumentSize(s, length).size = s.size /\ HasSize(SetDocumentSize(s, length))
    <2>1. HasSize([s EXCEPT !.length = length]) /\ [s EXCEPT !.length = length].size = s.size
      BY DEF HasSize
    <2> QED BY <2>1, ClampKeepsSize DEF SetDocumentSize
  <1> QED BY <1>1, <1>2, <1>3

\* A document takes the viewport as it is, unless it has no width yet.
LEMMA DocumentKeepsSize ==
    ASSUME NEW s, HasSize(s), NEW request, NEW length
    PROVE s.size.width = 0 \/ ShowDocument(s, request, length).size = s.size
  <1> DEFINE d == [s EXCEPT !.document = loads + 1, !.url = request.url, !.page = request.url,
                            !.lifecycle = "Complete", !.hovered = 0, !.focused = 0, !.forms = loads + 1]
             v == SetDocumentSize(d, length)
  <1>1. HasSize(d) /\ d.size = s.size
    BY DEF HasSize
  <1>2. v.size.width # 0 => ShowDocument(s, request, length) = v
    BY DEF ShowDocument
  <1> HIDE DEF d
  <1>3. v.size = s.size
    BY <1>1, ViewportSizes
  <1> QED BY <1>2, <1>3

\* What becomes of the history does not show in the viewport.
LEMMA HistoryKeepsSize ==
    ASSUME NEW s, HasSize(s)
    PROVE /\ \A request : HasSize(AppendHistory(s, request)) /\ AppendHistory(s, request).size = s.size
          /\ \A request : HasSize(ReplaceMetadata(s, request)) /\ ReplaceMetadata(s, request).size = s.size
          /\ \A target : HasSize(MoveTo(s, target)) /\ MoveTo(s, target).size = s.size
          /\ NavigationFails(s).size = s.size
  <1>1. ASSUME NEW request PROVE HasSize(AppendHistory(s, request)) /\ AppendHistory(s, request).size = s.size
    BY DEF AppendHistory, HasSize
  <1>2. ASSUME NEW request
        PROVE HasSize(ReplaceMetadata(s, request)) /\ ReplaceMetadata(s, request).size = s.size
    BY DEF ReplaceMetadata, HasSize
  <1>3. ASSUME NEW target PROVE HasSize(MoveTo(s, target)) /\ MoveTo(s, target).size = s.size
    BY DEF MoveTo, HasSize
  <1>4. NavigationFails(s).size = s.size
    BY DEF NavigationFails, HasSize
  <1> QED BY <1>1, <1>2, <1>3, <1>4

\* What a step in the active tab does to the sessions: the others stay, and the
\* viewport keeps its size if it has a width.
ActiveTabOnly ==
    /\ active # 0
    /\ UNCHANGED <<order, window>>
    /\ \E c : /\ session' = [session EXCEPT ![ActiveTab] = c]
              /\ session[ActiveTab].size.width = 0 \/ c.size = session[ActiveTab].size

\* The kinds of steps there are.
KindsOfStep ==
    \/ UNCHANGED <<order, window, session>>
    \/ ActiveTabOnly
    \/ \E t \in Tabs : NewTab(t)
    \/ \E i \in 1..Len(order) : CloseTab(i)
    \/ \E size \in [width : Widths, height : Heights] : Resize(size)

LEMMA LoadIsInActiveTab ==
    ASSUME active # 0, UNCHANGED <<order, window>>, NEW request, NEW s, LoadSucceeds(request, s),
           HasSize(s), s.size = session[ActiveTab].size
    PROVE ActiveTabOnly
  <1>1. PICK length \in Heights :
            session' = [session EXCEPT ![ActiveTab] = ShowDocument(s, request, length)]
    BY DEF LoadSucceeds
  <1> DEFINE c == ShowDocument(s, request, length)
  <1>2. s.size.width = 0 \/ c.size = s.size
    BY DocumentKeepsSize
  <1>3. session' = [session EXCEPT ![ActiveTab] = c]
    BY <1>1
  <1> HIDE DEF c
  <1> QED BY <1>2, <1>3 DEF ActiveTabOnly

LEMMA FailureIsInActiveTab ==
    ASSUME ShellInv, active # 0, UNCHANGED <<order, window>>, LoadFails
    PROVE ActiveTabOnly
  <1>1. ActiveTab \in Tabs /\ session \in [Tabs -> Session]
    BY ActiveTabIsTab DEF ShellInv
  <1>2. HasSize(session[ActiveTab])
    BY <1>1 DEF HasSize, Session
  <1> DEFINE c == NavigationFails(session[ActiveTab])
  <1>3. c.size = session[ActiveTab].size
    BY <1>2, HistoryKeepsSize
  <1>4. session' = [session EXCEPT ![ActiveTab] = c]
    BY <1>1 DEF LoadFails
  <1> HIDE DEF c
  <1> QED BY <1>3, <1>4 DEF ActiveTabOnly

LEMMA TraverseIsInActiveTab ==
    ASSUME ShellInv, active # 0, UNCHANGED <<order, window>>, NEW enabled, NEW target, Traverse(enabled, target)
    PROVE KindsOfStep
  <1> DEFINE s == session[ActiveTab]
             request == s.history[target].request
  <1>1. HasSize(s)
    BY ActiveTabIsTab DEF ShellInv, HasSize, Session
  <1>2. LET m == MoveTo(ReplaceMetadata(s, request), target) IN HasSize(m) /\ m.size = s.size
    BY <1>1, HistoryKeepsSize
  <1>3. CASE NothingToLoad(enabled)
    BY <1>3 DEF NothingToLoad, KindsOfStep
  <1>4. CASE LoadSucceeds(request, MoveTo(ReplaceMetadata(s, request), target))
    BY <1>2, <1>4, LoadIsInActiveTab DEF KindsOfStep
  <1>5. CASE LoadFails
    BY <1>5, FailureIsInActiveTab DEF KindsOfStep
  <1> QED BY <1>3, <1>4, <1>5 DEF Traverse

LEMMA EveryStepHasKind ==
    ASSUME ShellInv, Next
    PROVE KindsOfStep
  <1> DEFINE s == session[ActiveTab]
  <1>0. active # 0 => HasSize(s)
    BY ActiveTabIsTab DEF ShellInv, HasSize, Session
  <1>1. ASSUME NEW u \in Urls, SetAddress(u) PROVE KindsOfStep
    BY <1>1 DEF SetAddress, KindsOfStep
  <1>2. ASSUME NEW u \in Urls, PressLink(u) PROVE KindsOfStep
    <2> DEFINE request == [url |-> u, width |-> s.size.width]
    <2>1. /\ active # 0 /\ UNCHANGED <<order, window>>
          /\ LoadSucceeds(request, AppendHistory(s, request)) \/ LoadFails
      BY <1>2 DEF PressLink
    <2> HIDE DEF request
    <2>2. HasSize(AppendHistory(s, request)) /\ AppendHistory(s, request).size = s.size
      BY <1>0, <2>1, HistoryKeepsSize
    <2> QED BY <2>1, <2>2, LoadIsInActiveTab, FailureIsInActiveTab DEF KindsOfStep
  <1>3. CASE NoActiveTab
    BY <1>3 DEF NoActiveTab, Nav, KindsOfStep
  <1>4. CASE Navigate
    <2>1. /\ active # 0 /\ UNCHANGED <<order, window>>
          /\ LoadSucceeds(AddressRequest, AppendHistory(s, AddressRequest)) \/ LoadFails
      BY <1>4 DEF Navigate, Nav
    <2>2. LET a == AppendHistory(s, AddressRequest) IN HasSize(a) /\ a.size = s.size
      BY <1>0, <2>1, HistoryKeepsSize
    <2> QED BY <2>1, <2>2, LoadIsInActiveTab, FailureIsInActiveTab DEF KindsOfStep
  <1>5. CASE Reload
    <2> DEFINE request == s.history[s.index].request
    <2>1. /\ active # 0 /\ UNCHANGED <<order, window>>
          /\ UNCHANGED session \/ LoadSucceeds(request, ReplaceMetadata(s, request)) \/ LoadFails
      BY <1>5 DEF Reload, Nav, NothingToLoad
    <2> HIDE DEF request
    <2>2. HasSize(ReplaceMetadata(s, request)) /\ ReplaceMetadata(s, request).size = s.size
      BY <1>0, <2>1, HistoryKeepsSize
    <2> QED BY <2>1, <2>2, LoadIsInActiveTab, FailureIsInActiveTab DEF KindsOfStep
  <1>6. CASE Back
    <2>1. active # 0 /\ UNCHANGED <<order, window>> /\ Traverse(CanGoBack(s), s.index - 1)
      BY <1>6 DEF Back, Nav
    <2> QED BY <2>1, TraverseIsInActiveTab
  <1>7. CASE Forward
    <2>1. active # 0 /\ UNCHANGED <<order, window>> /\ Traverse(CanGoForward(s), s.index + 1)
      BY <1>7 DEF Forward, Nav
    <2> QED BY <2>1, TraverseIsInActiveTab
  <1>8. CASE CloseActiveTab
    <2>1. active \in 1..Len(order) /\ CloseTab(active)
      BY <1>8, ActiveTabIsTab DEF CloseActiveTab, ShellInv
    <2> QED BY <2>1 DEF KindsOfStep
  <1>9. ASSUME NEW i \in 1..Len(order), SwitchToTab(i) PROVE KindsOfStep
    BY <1>9 DEF SwitchToTab, KindsOfStep
  <1>10. ASSUME NEW c, active # 0, ActiveBecomes(c), c.size = s.size PROVE KindsOfStep
    BY <1>10 DEF ActiveBecomes, ActiveTabOnly, KindsOfStep
  <1>11. CASE PointerMove
    <2>1. PICK hit \in BOOLEAN : ActiveBecomes([s EXCEPT !.hovered = IF hit THEN s.document ELSE 0])
      BY <1>11 DEF PointerMove
    <2>2. active # 0
      BY <1>11 DEF PointerMove
    <2> DEFINE n == IF hit THEN s.document ELSE 0
    <2> HIDE DEF n, s
    <2>3. [s EXCEPT !.hovered = n].size = s.size
      BY <1>0, <2>2 DEF HasSize
    <2> QED BY <1>10, <2>1, <2>2, <2>3 DEF n
  <1>12. CASE PressControl
    <2>1. active # 0 /\ ActiveBecomes([s EXCEPT !.focused = s.forms])
      BY <1>12 DEF PressControl
    <2> HIDE DEF s
    <2>2. [s EXCEPT !.focused = s.forms].size = s.size
      BY <1>0, <2>1 DEF HasSize
    <2> QED BY <1>10, <2>1, <2>2
  <1>13. ASSUME NEW y, PressFragment(y) \/ Scroll(y) PROVE KindsOfStep
    <2>1. active # 0 /\ \E z : ActiveBecomes(ScrollTo(s, z))
      BY <1>13 DEF PressFragment, Scroll
    <2>2. \A z : ScrollTo(s, z).size = s.size
      BY <1>0, <2>1, ViewportSizes
    <2> QED BY <1>10, <2>1, <2>2
  <1>14. CASE PressNothing \/ PointerRelease
    BY <1>14 DEF PressNothing, PointerRelease, KindsOfStep
  <1> QED BY <1>1, <1>2, <1>3, <1>4, <1>5, <1>6, <1>7, <1>8, <1>9, <1>11, <1>12, <1>13, <1>14
          DEF Next, KindsOfStep

\* Who is open after a tab was opened or closed.
LEMMA OpenTabsNext ==
    ASSUME ShellInv
    PROVE /\ \A t \in Tabs : NewTab(t) => OpenTabs' \subseteq OpenTabs \cup {t}
          /\ \A i \in 1..Len(order) : CloseTab(i) => OpenTabs' \subseteq OpenTabs \ {order[i]}
  <1>1. order \in Seq(Tabs) /\ Len(order) \in Nat
    BY LenProperties DEF ShellInv, TabsInv
  <1>2. ASSUME NEW t \in Tabs, NewTab(t) PROVE OpenTabs' \subseteq OpenTabs \cup {t}
    <2>1. /\ Len(order') = Len(order) + 1
          /\ \A i \in 1..Len(order) : order'[i] = order[i]
          /\ order'[Len(order) + 1] = t
      BY <1>1, <1>2, AppendProperties DEF NewTab
    <2>2. ASSUME NEW j \in 1..Len(order') PROVE order'[j] \in OpenTabs \cup {t}
      BY <1>1, <2>1, <2>2 DEF OpenTabs
    <2> QED BY <2>2 DEF OpenTabs
  <1>3. ASSUME NEW i \in 1..Len(order), CloseTab(i) PROVE OpenTabs' \subseteq OpenTabs \ {order[i]}
    <2>1. /\ Len(order') = Len(order) - 1
          /\ \A j \in 1..Len(order') : order'[j] = IF j < i THEN order[j] ELSE order[j + 1]
      BY <1>1, <1>3, WithoutTab DEF CloseTab
    <2>2. order[i] \notin OpenTabs'
      BY <1>3, CloseTabTabs DEF ShellInv
    <2>3. ASSUME NEW j \in 1..Len(order') PROVE order'[j] \in OpenTabs
      BY <1>1, <2>1, <2>3 DEF OpenTabs
    <2> QED BY <2>2, <2>3 DEF OpenTabs
  <1> QED BY <1>2, <1>3

\* The effect of a step on a tab that is open afterwards.
SessionStep(t) ==
    \/ t \notin OpenTabs /\ session'[t] = SetSize(NewSession, window')
    \/ t \in OpenTabs /\ session'[t] = SetSize(session[t], window')
    \/ /\ t \in OpenTabs /\ window' = window
       /\ \/ session'[t] = session[t]
          \/ /\ active # 0 /\ t = order[active]
             /\ session[t].size.width = 0 \/ session'[t].size = session[t].size

LEMMA EverySessionStep ==
    ASSUME ShellInv, [Next]_vars, NEW t \in OpenTabs'
    PROVE SessionStep(t)
  <1>0. session \in [Tabs -> Session] /\ OpenTabs \subseteq Tabs
    BY OpenTabsAreTabs DEF ShellInv
  <1>1. CASE UNCHANGED <<order, window, session>>
    BY <1>1 DEF OpenTabs, SessionStep
  <1>2. CASE ActiveTabOnly
    <2>1. PICK c : /\ session' = [session EXCEPT ![ActiveTab] = c]
                   /\ session[ActiveTab].size.width = 0 \/ c.size = session[ActiveTab].size
      BY <1>2 DEF ActiveTabOnly
    <2>2. active # 0 /\ window' = window /\ t \in OpenTabs /\ t \in Tabs
      BY <1>0, <1>2 DEF ActiveTabOnly, OpenTabs
    <2> QED BY <1>0, <2>1, <2>2 DEF SessionStep, ActiveTab
  <1>3. ASSUME NEW u \in Tabs, NewTab(u) PROVE SessionStep(t)
    <2>1. t \in OpenTabs \/ t = u
      BY <1>3, OpenTabsNext
    <2>2. session' = [session EXCEPT ![u] = SetSize(NewSession, window)] /\ u \notin OpenTabs /\ window' = window
      BY <1>3 DEF NewTab
    <2>3. CASE t = u
      BY <1>0, <2>2, <2>3 DEF SessionStep
    <2>4. CASE t # u
      BY <1>0, <2>1, <2>2, <2>4 DEF SessionStep
    <2> QED BY <2>3, <2>4
  <1>4. ASSUME NEW i \in 1..Len(order), CloseTab(i) PROVE SessionStep(t)
    <2>1. t \in OpenTabs /\ t # order[i]
      BY <1>4, OpenTabsNext
    <2>2. session' = [session EXCEPT ![order[i]] = NewSession] /\ window' = window
      BY <1>4 DEF CloseTab
    <2> QED BY <1>0, <2>1, <2>2 DEF SessionStep
  <1>5. ASSUME NEW size \in [width : Widths, height : Heights], Resize(size) PROVE SessionStep(t)
    <2>1. t \in OpenTabs /\ window' = size
      BY <1>5 DEF Resize, OpenTabs
    <2>2. session'[t] = SetSize(session[t], size)
      BY <1>0, <1>5, <2>1 DEF Resize
    <2> QED BY <2>1, <2>2 DEF SessionStep
  <1>6. KindsOfStep
    BY EveryStepHasKind DEF KindsOfStep, vars
  <1> QED BY <1>1, <1>2, <1>3, <1>4, <1>5, <1>6 DEF KindsOfStep

\* Every tab, also one in the background and one just opened, has the viewport of
\* the window once the window has a width (BrowserApplication::resize, new_tab;
\* BrowserSession::commit gives only a session without a width a size of its own).
THEOREM ViewportsFollowWindow == Spec => []ViewportFollowsWindow
  <1>1. Init => ViewportFollowsWindow
    <2> SUFFICES ASSUME Init PROVE \A u \in OpenTabs : session[u].size = window
      BY DEF ViewportFollowsWindow
    <2>1. PICK t \in Tabs :
              /\ order = <<t>>
              /\ session = [u \in Tabs |-> IF u = t THEN SetSize(NewSession, window) ELSE NewSession]
      BY DEF Init
    <2>2. OpenTabs = {t}
      BY <2>1 DEF OpenTabs
    <2>3. session[t].size = window
      <3>1. HasSize(NewSession)
        BY DEF HasSize, NewSession
      <3> QED BY <2>1, <3>1, ViewportSizes
    <2> QED BY <2>2, <2>3
  <1>2. ShellInv /\ ViewportFollowsWindow /\ [Next]_vars => ViewportFollowsWindow'
    <2> SUFFICES ASSUME ShellInv, ViewportFollowsWindow, [Next]_vars, window'.width > 0, NEW t \in OpenTabs'
                 PROVE session'[t].size = window'
      BY DEF ViewportFollowsWindow
    <2>1. SessionStep(t)
      BY EverySessionStep
    <2>2. HasSize(NewSession) /\ (t \in OpenTabs => HasSize(session[t]))
      BY OpenTabsAreTabs DEF HasSize, NewSession, ShellInv, Session
    <2>3. window' = window /\ t \in OpenTabs => session[t].size = window' /\ session[t].size.width # 0
      BY DEF ViewportFollowsWindow
    <2> QED BY <2>1, <2>2, <2>3, ViewportSizes DEF SessionStep
  <1> QED BY <1>1, <1>2, ShellInvariant, PTL DEF Spec

\* No operation of the shell changes the session of a tab in the background,
\* except that a resized window resizes its viewport.
THEOREM TabsDoNotInterfere == Spec => TabsAreIndependent
  <1>1. ShellInv /\ [Next]_vars =>
            \A t \in OpenTabs \cap OpenTabs' :
                \/ active # 0 /\ t = order[active]
                \/ session'[t] \in {session[t], SetSize(session[t], window')}
    BY EverySessionStep DEF SessionStep
  <1> QED BY <1>1, ShellInvariant, PTL DEF Spec, TabsAreIndependent
=============================================================================
