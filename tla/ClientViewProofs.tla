--------------------------- MODULE ClientViewProofs ---------------------------
(* Proofs about the page: whatever handlers wait while the user goes on, and *)
(* however late the frame tells where it is, the page shows one view, and    *)
(* its omnibox names what the frame has settled on.                          *)
EXTENDS ClientView, TLAPS

(* The last event that waits is of the document that is shown, and without a *)
(* frame none waits.  When it is handled the omnibox has caught up.          *)
LastNoticeIsPage ==
    /\ notices # <<>> => notices[Len(notices)] = page
    /\ ~activeFrame => notices = <<>>

IInv == TypeOK /\ OneView /\ LastNoticeIsPage /\ OmniboxNamesPage

LEMMA SitesAreUrls ==
    /\ \A url \in Sites : url \in Urls /\ url # Empty /\ url # YouTube
    /\ YouTube \in Urls /\ Urls \subseteq Texts /\ Empty \in Texts
  BY InputAssumption DEF Urls, Texts

LEMMA SearchFindsUrl ==
  ASSUME NEW text \in Texts
  PROVE  search(text) \in Urls /\ (search(text) # YouTube => search(text) \in Sites)
  BY InputAssumption DEF search, Texts, Urls

LEMMA NoNotices == <<>> \in Seq(Urls) /\ Len(<<>>) <= MaxNotices
  BY MaxNoticesAssumption

LEMMA Attributes ==
  ASSUME NEW a \in BOOLEAN, NEW b \in BOOLEAN
  PROVE  [toolbar |-> a, neko |-> b] \in [toolbar : BOOLEAN, neko : BOOLEAN]
  OBVIOUS

LEMMA InitIInv == Init => IInv
<1>. SUFFICES ASSUME Init PROVE IInv
  OBVIOUS
<1>1. /\ activeFrame = FALSE /\ edited = FALSE /\ notices = <<>>
      /\ page = Empty /\ loading = Empty /\ omnibox = Empty /\ address = Empty
      /\ submit \in [Submits -> {"none", "registering", "transport"}]
      /\ \A i \in Submits : submit[i] # "transport"
      /\ target \in [Submits -> Sites \union {Empty}]
      /\ clicked = "none" /\ hidden = [toolbar |-> TRUE, neko |-> TRUE]
  BY DEF Init
<1>2. TypeOK
  BY <1>1, SitesAreUrls, NoNotices, Attributes DEF TypeOK
<1>. QED
  BY <1>1, <1>2 DEF IInv, OneView, LastNoticeIsPage, OmniboxNamesPage, Shown, HiddenRules

-----------------------------------------------------------------------------
(* What leaves the frame, the views and the omnibox alone. *)
LEMMA ViewUnchanged ==
  ASSUME IInv, TypeOK', UNCHANGED <<frameVars, hidden, barVars>>
  PROVE  IInv'
  BY DEF IInv, OneView, LastNoticeIsPage, OmniboxNamesPage, Shown, frameVars, barVars

(* Without a frame there is nothing for the omnibox to follow. *)
LEMMA FrameRemoved ==
  ASSUME TypeOK', RemoveFrame, hidden' \in [toolbar : BOOLEAN, neko : BOOLEAN],
         hidden'.toolbar => hidden'.neko
  PROVE  IInv'
  BY DEF IInv, RemoveFrame, OneView, LastNoticeIsPage, OmniboxNamesPage, Shown, HiddenRules

(* A request has been made of the frame, whose document is the one before.  *)
LEMMA Requested ==
  ASSUME IInv, TypeOK', NEW url \in Sites, Go(url), UNCHANGED <<page, notices>>,
         activeFrame', ~hidden'.toolbar, hidden'.neko
  PROVE  IInv'
  BY SitesAreUrls DEF IInv, Go, OneView, LastNoticeIsPage, OmniboxNamesPage, Shown, HiddenRules

LEMMA SubmitPreserves ==
  ASSUME IInv, NEW i \in Submits,
         SubmitForm(i) \/ RegisterFails(i) \/ TransportFails(i)
  PROVE  IInv'
<1>1. UNCHANGED <<frameVars, hidden, barVars>>
  BY DEF SubmitForm, RegisterFails, TransportFails
<1>2. /\ submit' \in [Submits -> {"none", "registering", "transport"}]
      /\ \A j \in Submits :
           submit'[j] = "transport" => submit[j] = "transport" /\ target'[j] = target[j]
      /\ target' \in [Submits -> Sites \union {Empty}]
  BY DEF IInv, TypeOK, SubmitForm, RegisterFails, TransportFails, Done
<1>3. UNCHANGED address /\ clicked' \in {clicked, "none"}
  BY DEF SubmitForm, RegisterFails, TransportFails
<1>4. TypeOK'
  BY <1>1, <1>2, <1>3 DEF IInv, TypeOK, frameVars, barVars
<1>. QED
  BY <1>1, <1>4, ViewUnchanged

LEMMA NekoPreserves ==
  ASSUME IInv, openNekoView, UNCHANGED <<address, target>>, clicked' \in {clicked, "none"},
         submit' \in [Submits -> {"none", "registering", "transport"}],
         \A j \in Submits : submit'[j] = "transport" => submit[j] = "transport"
  PROVE  IInv'
<1>1. /\ hidden' \in [toolbar : BOOLEAN, neko : BOOLEAN]
      /\ ~hidden'.toolbar
  BY Attributes DEF openNekoView
<1>2. TypeOK'
  BY <1>1, SitesAreUrls, NoNotices DEF IInv, TypeOK, openNekoView, RemoveFrame, SetOmnibox
<1>. QED
  BY <1>1, <1>2, FrameRemoved DEF openNekoView

LEMMA RegisteredPreserves ==
  ASSUME IInv, NEW i \in Submits, Registered(i)
  PROVE  IInv'
<1>1. CASE search(address) = YouTube
  <2>1. /\ submit' \in [Submits -> {"none", "registering", "transport"}]
        /\ \A j \in Submits : submit'[j] = "transport" => submit[j] = "transport"
    BY <1>1 DEF IInv, TypeOK, Registered
  <2>. QED
    BY <1>1, <2>1, NekoPreserves DEF Registered
<1>2. CASE search(address) # YouTube
  <2>1. search(address) \in Sites
    BY <1>2, SearchFindsUrl DEF IInv, TypeOK
  <2>2. TypeOK'
    BY <1>2, <2>1 DEF IInv, TypeOK, Registered, WaitForTransport, frameVars, barVars
  <2>. QED
    BY <1>2, <2>2, ViewUnchanged DEF Registered
<1>. QED
  BY <1>1, <1>2

LEMMA TransportReadyPreserves ==
  ASSUME IInv, NEW i \in Submits, TransportReady(i)
  PROVE  IInv'
<1>1. target[i] \in Sites
  BY DEF IInv, TypeOK, TransportReady
<1>2. /\ hidden' \in [toolbar : BOOLEAN, neko : BOOLEAN]
      /\ ~hidden'.toolbar /\ hidden'.neko
  BY DEF IInv, TypeOK, OneView, TransportReady
<1>3. TypeOK'
  BY <1>1, <1>2, SitesAreUrls DEF IInv, TypeOK, TransportReady, Go, SetOmnibox, Done
<1>. QED
  BY <1>1, <1>2, <1>3, Requested DEF TransportReady

LEMMA OmniboxPreserves ==
  ASSUME IInv, OmniboxSubmit
  PROVE  IInv'
<1>0. search(omnibox) # YouTube => search(omnibox) \in Sites
  BY SearchFindsUrl DEF IInv, TypeOK
<1>1. CASE search(omnibox) = YouTube
  BY <1>1, NekoPreserves DEF OmniboxSubmit, submitVars, IInv, TypeOK
<1>2. CASE search(omnibox) # YouTube /\ ~activeFrame
  <2>1. UNCHANGED <<frameVars, hidden, barVars>> /\ TypeOK'
    BY <1>2 DEF IInv, TypeOK, OmniboxSubmit, frameVars, barVars, submitVars
  <2>. QED
    BY <2>1, ViewUnchanged
<1>3. CASE search(omnibox) # YouTube /\ activeFrame
  <2>1. /\ Go(search(omnibox)) /\ UNCHANGED <<page, notices>> /\ activeFrame'
        /\ hidden' \in [toolbar : BOOLEAN, neko : BOOLEAN]
        /\ ~hidden'.toolbar /\ hidden'.neko
    BY <1>3 DEF IInv, TypeOK, OneView, OmniboxSubmit
  <2>2. TypeOK'
    BY <1>0, <1>3, <2>1, SitesAreUrls
    DEF IInv, TypeOK, OmniboxSubmit, Go, SetOmnibox, submitVars
  <2>. QED
    BY <1>0, <1>3, <2>1, <2>2, Requested
<1>. QED
  BY <1>1, <1>2, <1>3

(* A document's event joins the ones that wait, and is the last of them. *)
LEMMA PageChangesPreserves ==
  ASSUME IInv, NEW url \in Urls, PageChanges(url)
  PROVE  IInv'
<1>1. /\ notices' \in Seq(Urls) /\ Len(notices') = Len(notices) + 1
      /\ notices' # <<>> /\ notices'[Len(notices')] = url
  BY DEF IInv, TypeOK, PageChanges
<1>2. Len(notices') <= MaxNotices
  BY <1>1, MaxNoticesAssumption DEF IInv, TypeOK, PageChanges
<1>3. TypeOK'
  BY <1>1, <1>2, SitesAreUrls DEF IInv, TypeOK, PageChanges, barVars, submitVars
<1>. QED
  BY <1>1, <1>3
  DEF IInv, PageChanges, OneView, LastNoticeIsPage, OmniboxNamesPage, Shown, HiddenRules, barVars

LEMMA UrlChangePreserves ==
  ASSUME IInv, UrlChange
  PROVE  IInv'
<1>1. /\ notices \in Seq(Urls) /\ notices # <<>> /\ Len(notices) \in Nat
      /\ Head(notices) \in Urls /\ Head(notices) = notices[1]
      /\ notices' \in Seq(Urls) /\ Len(notices') = Len(notices) - 1
      /\ \A k \in 1..Len(notices') : notices'[k] = notices[k + 1]
  BY DEF IInv, TypeOK, UrlChange
<1>2. TypeOK'
  <2>1. Len(notices') <= MaxNotices
    BY <1>1, MaxNoticesAssumption DEF IInv, TypeOK
  <2>2. /\ UNCHANGED <<activeFrame, page, loading, hidden, address, submit, target, clicked>>
        /\ omnibox' = Head(notices) /\ edited' = FALSE
    BY DEF UrlChange, SetOmnibox, submitVars
  <2>3. omnibox' \in Texts
    BY <1>1, <2>2, SitesAreUrls
  <2>. QED
    BY <1>1, <2>1, <2>2, <2>3 DEF IInv, TypeOK
<1>3. notices' # <<>> => notices'[Len(notices')] = notices[Len(notices)]
  <2>. SUFFICES ASSUME notices' # <<>> PROVE notices'[Len(notices')] = notices[Len(notices)]
    OBVIOUS
  <2>1. Len(notices') \in 1..Len(notices') /\ Len(notices') + 1 = Len(notices)
    BY <1>1
  <2>. QED
    BY <1>1, <2>1
<1>4. notices' = <<>> => omnibox' = page
  <2>. SUFFICES ASSUME notices' = <<>> PROVE omnibox' = page
    OBVIOUS
  <2>1. Len(notices) = 1
    BY <1>1
  <2>. QED
    BY <1>1, <2>1 DEF IInv, LastNoticeIsPage, UrlChange, SetOmnibox
<1>5. activeFrame
  BY <1>1 DEF IInv, LastNoticeIsPage, TypeOK
<1>. QED
  BY <1>1, <1>2, <1>3, <1>4, <1>5
  DEF IInv, UrlChange, OneView, LastNoticeIsPage, OmniboxNamesPage, Shown, HiddenRules

(* The user's other steps. *)
LEMMA TypePreserves ==
  ASSUME IInv, NEW text \in Texts, TypeAddress(text) \/ TypeOmnibox(text)
  PROVE  IInv'
<1>1. TypeOK'
  BY DEF IInv, TypeOK, TypeAddress, TypeOmnibox, frameVars, barVars, submitVars
<1>. QED
  BY <1>1 DEF IInv, OneView, LastNoticeIsPage, OmniboxNamesPage, Shown, TypeAddress,
     TypeOmnibox, frameVars, barVars

LEMMA ButtonPreserves ==
  ASSUME IInv, NEW name \in {"back", "forward", "reload"}, Button(name)
  PROVE  IInv'
<1>1. TypeOK'
  BY DEF IInv, TypeOK, Button, frameVars, barVars, submitVars
<1>. QED
  BY <1>1, ViewUnchanged DEF Button

LEMMA HomePreserves ==
  ASSUME IInv, Home
  PROVE  IInv'
<1>1. /\ hidden' \in [toolbar : BOOLEAN, neko : BOOLEAN]
      /\ hidden'.neko
  BY Attributes DEF Home
<1>2. TypeOK'
  BY <1>1, SitesAreUrls, NoNotices DEF IInv, TypeOK, Home, RemoveFrame, SetOmnibox, submitVars
<1>. QED
  BY <1>1, <1>2, FrameRemoved DEF Home

LEMMA NextIInv == IInv /\ [Next]_vars => IInv'
<1>. SUFFICES ASSUME IInv, [Next]_vars PROVE IInv'
  OBVIOUS
<1>1. CASE UNCHANGED vars
  <2>1. TypeOK'
    BY <1>1 DEF IInv, TypeOK, vars, frameVars, barVars, submitVars
  <2>. QED
    BY <1>1, <2>1, ViewUnchanged DEF vars
<1>2. CASE Next
  BY <1>2, SubmitPreserves, RegisteredPreserves, TransportReadyPreserves, OmniboxPreserves,
     PageChangesPreserves, UrlChangePreserves, TypePreserves, ButtonPreserves, HomePreserves
  DEF Next
<1>. QED
  BY <1>1, <1>2

THEOREM Invariant == Spec => []IInv
  BY InitIInv, NextIInv, PTL DEF Spec

-----------------------------------------------------------------------------
(* The type invariant of the page. *)
THEOREM TypeCorrect == Spec => []TypeOK
  BY Invariant, PTL DEF IInv

(* One view at a time, with a toolbar that is not marked hidden, for any    *)
(* number of handlers of the form that wait at the same time.               *)
THEOREM OneViewHolds == Spec => []OneView
  BY Invariant, PTL DEF IInv

(* Once the frame has settled its request and every "urlchange" was         *)
(* handled, the omnibox names the page or holds what the user types: for    *)
(* any number of events that wait while the user goes on (index.js:125-160).*)
THEOREM OmniboxIsRight == Spec => []OmniboxNamesPage
  BY Invariant, PTL DEF IInv
=============================================================================
