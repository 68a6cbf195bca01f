------------------------------ MODULE ClientView ------------------------------
(***************************************************************************)
(* The page of the browser, public/index.js: a landing form, a toolbar and *)
(* two views that exclude each other, the Scramjet frame with a proxied    *)
(* page and the Neko frame with the remote browser that plays YouTube.     *)
(* Submitting the form is asynchronous: the handler waits for the service  *)
(* worker and for the transport, and the user goes on using the page in    *)
(* between, so several submits may be under way.  The other handlers run   *)
(* to the end, but what they ask of the frame comes later: go() only       *)
(* starts a navigation, and the frame tells by the event "urlchange" where *)
(* it is, when the document is already another one.                        *)
(***************************************************************************)
EXTENDS Naturals, Sequences

CONSTANTS
    Sites,      \* URLs that are not YouTube
    YouTube,    \* a URL for which isYouTubeUrl() is true
    Results,    \* the URL of a search, for a text that is not a URL
    Empty,      \* the empty string; also "no page"
    Submits,    \* bound: handlers of the form that may wait at the same time
    MaxNotices  \* bound: events "urlchange" that have not been handled

ASSUME InputAssumption ==
    YouTube \notin Sites /\ Results \in Sites /\ Empty \notin Sites \union {YouTube}
ASSUME MaxNoticesAssumption == MaxNotices \in Nat

Urls == Sites \union {YouTube}
Texts == Urls \union {Empty}

VARIABLES
    activeFrame, \* the Scramjet frame exists
    page,        \* the URL of the document in it, Empty before the first one
    loading,     \* the URL that go() was asked for and that is not settled yet
    notices,     \* the events "urlchange" that have not been handled
    hidden,      \* the attribute hidden of the toolbar and of the Neko frame
    omnibox,     \* omnibox.value
    edited,      \* history: the user typed what the omnibox holds
    address,     \* the text of the landing form
    submit,      \* a waiting handler: "none", "registering", "transport"
    target,      \* the url it computed
    clicked      \* history: the button clicked last, if nothing was done since

frameVars == <<activeFrame, page, loading, notices>>
barVars == <<omnibox, edited>>
submitVars == <<submit, target>>
vars == <<frameVars, hidden, barVars, address, submitVars, clicked>>

Init ==
    /\ activeFrame = FALSE /\ page = Empty /\ loading = Empty /\ notices = <<>>
    /\ hidden = [toolbar |-> TRUE, neko |-> TRUE]
    /\ omnibox = Empty /\ edited = FALSE /\ address = Empty
    /\ submit = [i \in Submits |-> "none"]
    /\ target = [i \in Submits |-> Empty]
    /\ clicked = "none"

(* index.css has a rule for the hidden Neko frame; the toolbar's own        *)
(* "display: flex" overrides the attribute.                                 *)
HiddenRules == {"neko"}
Shown(element) == hidden[element] => element \notin HiddenRules

(* A text that is not a URL, like the empty one, is searched for. *)
search(text) == IF text = Empty THEN Results ELSE text

-----------------------------------------------------------------------------
SetOmnibox(text) == omnibox' = text /\ edited' = FALSE

(* With its frame go the document and what it would still do or tell: the   *)
(* event is dispatched by Scramjet's script in the frame.                   *)
RemoveFrame == activeFrame' = FALSE /\ page' = Empty /\ loading' = Empty /\ notices' = <<>>

openNekoView ==
    /\ RemoveFrame
    /\ hidden' = [toolbar |-> FALSE, neko |-> FALSE]
    /\ SetOmnibox(YouTube)

(* The end of the form's handler and of the omnibox's. *)
Go(url) == SetOmnibox(url) /\ loading' = url

-----------------------------------------------------------------------------
(* The user types into the landing form, or into the omnibox. *)
TypeAddress(text) ==
    /\ address' = text
    /\ clicked' = "none"
    /\ UNCHANGED <<frameVars, hidden, barVars, submitVars>>

TypeOmnibox(text) ==
    /\ omnibox' = text /\ edited' = TRUE
    /\ clicked' = "none"
    /\ UNCHANGED <<frameVars, hidden, address, submitVars>>

(* The form is submitted, and the handler waits in registerSW().            *)
SubmitForm(i) ==
    /\ submit[i] = "none"
    /\ submit' = [submit EXCEPT ![i] = "registering"]
    /\ clicked' = "none"
    /\ UNCHANGED <<frameVars, hidden, barVars, address, target>>

RegisterFails(i) ==
    /\ submit[i] = "registering"
    /\ submit' = [submit EXCEPT ![i] = "none"]
    /\ UNCHANGED <<frameVars, hidden, barVars, address, target, clicked>>

WaitForTransport(i, url) ==
    /\ submit' = [submit EXCEPT ![i] = "transport"]
    /\ target' = [target EXCEPT ![i] = url]

(* Mutant: the handler goes on after it has opened the Neko view. *)
RegisteredNoReturn(i) ==
    /\ submit[i] = "registering"
    /\ WaitForTransport(i, search(address))
    /\ \/ search(address) = YouTube /\ openNekoView
       \/ search(address) # YouTube /\ UNCHANGED <<frameVars, hidden, barVars>>
    /\ UNCHANGED <<address, clicked>>

(* registerSW() is done: the address is read now, not when it was submitted. *)
Registered(i) ==
    /\ submit[i] = "registering"
    /\ \/ /\ search(address) = YouTube
          /\ openNekoView
          /\ submit' = [submit EXCEPT ![i] = "none"]
          /\ UNCHANGED target
       \/ /\ search(address) # YouTube
          /\ WaitForTransport(i, search(address))
          /\ UNCHANGED <<frameVars, hidden, barVars>>
    /\ UNCHANGED <<address, clicked>>

Done(i) ==
    /\ submit' = [submit EXCEPT ![i] = "none"]
    /\ target' = [target EXCEPT ![i] = Empty]

(* Mutant: closeNekoView is left out. *)
TransportReadyKeepsNeko(i) ==
    /\ submit[i] = "transport"
    /\ activeFrame' = TRUE
    /\ hidden' = IF activeFrame THEN hidden ELSE [hidden EXCEPT !.toolbar = FALSE]
    /\ Go(target[i])
    /\ Done(i)
    /\ UNCHANGED <<page, notices, address, clicked>>

(* The transport is set: a frame is created, with its toolbar, unless there *)
(* is one by now.                                                           *)
TransportReady(i) ==
    /\ submit[i] = "transport"
    /\ activeFrame' = TRUE
    /\ hidden' = [toolbar |-> activeFrame /\ hidden.toolbar, neko |-> TRUE]
    /\ Go(target[i])
    /\ Done(i)
    /\ UNCHANGED <<page, notices, address, clicked>>

TransportFails(i) ==
    /\ submit[i] = "transport"
    /\ Done(i)
    /\ UNCHANGED <<frameVars, hidden, barVars, address, clicked>>

-----------------------------------------------------------------------------
(* Without a frame the text of the omnibox stays what it is. *)
OmniboxSubmit ==
    /\ \/ search(omnibox) = YouTube /\ openNekoView
       \/ /\ search(omnibox) # YouTube /\ ~activeFrame
          /\ UNCHANGED <<frameVars, hidden, barVars>>
       \/ /\ search(omnibox) # YouTube /\ activeFrame
          /\ hidden' = [hidden EXCEPT !.neko = TRUE]
          /\ Go(search(omnibox))
          /\ UNCHANGED <<activeFrame, page, notices>>
    /\ clicked' = "none"
    /\ UNCHANGED <<address, submitVars>>

(* The frame shows another document, or the same one under another URL: the *)
(* one that go() was asked for or that this redirects to, or where a click, *)
(* a script or the history takes it, while that request goes on or in its   *)
(* place.  A page that navigates to YouTube stays in the frame.             *)
PageChanges(url) ==
    /\ activeFrame /\ Len(notices) < MaxNotices
    /\ page' = url
    /\ loading' \in {loading, Empty}
    /\ notices' = Append(notices, url)
    /\ UNCHANGED <<activeFrame, hidden, barVars, address, submitVars, clicked>>

(* Mutant: the listener of "urlchange" is not there. *)
UrlChangeUnnoticed ==
    /\ notices # <<>>
    /\ notices' = Tail(notices)
    /\ UNCHANGED <<activeFrame, page, loading, hidden, barVars, address, submitVars, clicked>>

(* The listener of "urlchange" mirrors the URL, over what the user types.   *)
UrlChange ==
    /\ notices # <<>>
    /\ notices' = Tail(notices)
    /\ SetOmnibox(Head(notices))
    /\ UNCHANGED <<activeFrame, page, loading, hidden, address, submitVars, clicked>>

(* Back, Forward, Reload are handed to the frame, whose page may change;    *)
(* without a frame nothing happens.                                         *)
Button(name) ==
    /\ clicked' = name
    /\ UNCHANGED <<frameVars, hidden, barVars, address, submitVars>>

Home ==
    /\ RemoveFrame
    /\ hidden' = [toolbar |-> TRUE, neko |-> TRUE]
    /\ SetOmnibox(Empty)
    /\ clicked' = "none"
    /\ UNCHANGED <<address, submitVars>>

Next ==
    \/ \E text \in Texts : TypeAddress(text) \/ TypeOmnibox(text)
    \/ \E i \in Submits :
         SubmitForm(i) \/ RegisterFails(i) \/ Registered(i) \/ TransportReady(i)
           \/ TransportFails(i)
    \/ OmniboxSubmit
    \/ \E url \in Urls : PageChanges(url)
    \/ UrlChange
    \/ \E name \in {"back", "forward", "reload"} : Button(name)
    \/ Home

Spec == Init /\ [][Next]_vars

-----------------------------------------------------------------------------
TypeOK ==
    /\ activeFrame \in BOOLEAN
    /\ page \in Texts /\ loading \in Sites \union {Empty}
    /\ notices \in Seq(Urls) /\ Len(notices) <= MaxNotices
    /\ hidden \in [toolbar : BOOLEAN, neko : BOOLEAN]
    /\ omnibox \in Texts /\ edited \in BOOLEAN
    /\ address \in Texts
    /\ submit \in [Submits -> {"none", "registering", "transport"}]
    /\ target \in [Submits -> Sites \union {Empty}]
    /\ clicked \in {"none", "back", "forward", "reload"}
    /\ \A i \in Submits : submit[i] = "transport" => target[i] \in Sites

(* "only one view is active" (line 36), also when a handler that waited     *)
(* comes back after the user has opened the other view; and no view is      *)
(* there with a toolbar marked hidden.  Not the converse, that the toolbar  *)
(* is "shown only once a frame exists" (index.html:66): Shown("toolbar")    *)
(* holds on the landing page, too.                                          *)
OneView ==
    /\ ~(activeFrame /\ Shown("neko"))
    /\ activeFrame \/ Shown("neko") => ~hidden.toolbar

(* "the address bar tracks the visible page" (line 124): once the frame has *)
(* settled what it was asked for and its events were handled, the omnibox   *)
(* names the page, unless the user is typing; whatever submits, redirects,  *)
(* events of an earlier page and views came in between.                     *)
OmniboxNamesPage ==
    activeFrame /\ loading = Empty /\ notices = <<>> /\ ~edited => omnibox = page

-----------------------------------------------------------------------------
(* What the design and a comment say and the code does not do. *)

(* Design of the remote browser (docs/superpowers/specs, lines 102 and 146): *)
(* Back tears down the Neko view.  In the code it does nothing there.        *)
BackLeavesNeko == [][clicked' = "back" /\ clicked # "back" => Shown("neko")' = FALSE]_vars
=============================================================================
