------------------------------- MODULE DemoPage -------------------------------
(***************************************************************************)
(* The script of the demo page (GET /demo): a user picks images one after  *)
(* another, each pick posts to /inspect, and the page shows a preview, a   *)
(* spinner and a result.  Elements that are always shown and hidden        *)
(* together are one variable: the drop label is visible when preview is    *)
(* None, and the button "Inspect another" when result is not None.         *)
(*                                                                         *)
(* The continuation of an await runs in the browser task that settled it,  *)
(* so no click comes between the two: a request that was aborted can only  *)
(* end in AbortError, and the test of signal.aborted after the body is     *)
(* read never finds it set.                                                *)
(***************************************************************************)
EXTENDS Naturals

CONSTANTS
  Files, None,
  MaxPicks  \* bound: images picked in one behaviour

ASSUME DemoPageAssumption == None \notin Files /\ MaxPicks \in Nat

VARIABLES
  preview, result, spinner, \* what is visible
  current,                  \* currentController: a request's number, or 0
  requests                  \* every call of inspect(), in order of its number

pageVars == <<preview, result, spinner, current, requests>>

NewRequest == [file |-> None, at |-> "new", aborted |-> FALSE]

DemoInit ==
  /\ preview = None /\ result = None /\ spinner = FALSE
  /\ current = 0
  /\ requests = [i \in 1..MaxPicks |-> NewRequest]

(* Mutant: the request that is superseded is left running. *)
SupersedeQuietly(i) == requests

Supersede(i) == IF i = 0 THEN requests ELSE [requests EXCEPT ![i].aborted = TRUE]

(* An image is chosen or dropped; i is the number of the call. *)
Pick(i, f) ==
  /\ requests[i].at = "new" /\ \A j \in 1..(i - 1) : requests[j].at # "new"
  /\ requests' = [Supersede(current) EXCEPT ![i] = [file |-> f, at |-> "fetching", aborted |-> FALSE]]
  /\ current' = i
  /\ preview' = f /\ result' = None /\ spinner' = TRUE

(* Mutant: the spinner is left to the request that comes next. *)
FinallyNothing(i) == UNCHANGED <<spinner, current>>

Finally(i) ==
  IF current = i THEN spinner' = FALSE /\ current' = 0 ELSE UNCHANGED <<spinner, current>>

End(i) == requests' = [requests EXCEPT ![i].at = "over"]

Show(i, what) == result' = [of |-> requests[i].file, is |-> what]

(* The headers are there and the status is 2xx. *)
Responds(i) ==
  /\ requests[i].at = "fetching" /\ ~requests[i].aborted
  /\ requests' = [requests EXCEPT ![i].at = "reading"]
  /\ UNCHANGED <<preview, result, spinner, current>>

BodyRead(i, verdict) ==
  /\ requests[i].at = "reading" /\ ~requests[i].aborted
  /\ Show(i, verdict)
  /\ End(i) /\ Finally(i)
  /\ UNCHANGED preview

(* Any other status, no connection, or a body that is no JSON. *)
Fails(i) ==
  /\ requests[i].at \in {"fetching", "reading"} /\ ~requests[i].aborted
  /\ Show(i, "error")
  /\ End(i) /\ Finally(i)
  /\ UNCHANGED preview

AbortError(i) ==
  /\ requests[i].at \in {"fetching", "reading"} /\ requests[i].aborted
  /\ End(i) /\ Finally(i)
  /\ UNCHANGED <<preview, result>>

Again ==
  /\ result # None
  /\ result' = None /\ preview' = None
  /\ UNCHANGED <<spinner, current, requests>>

Settle(i) == BodyRead(i, "pass") \/ BodyRead(i, "reject") \/ Fails(i) \/ AbortError(i)

DemoNext ==
  \/ \E i \in 1..MaxPicks, f \in Files : Pick(i, f)
  \/ \E i \in 1..MaxPicks : Responds(i) \/ Settle(i)
  \/ Again

(* The page sets no time limit: that a request ends at all is up to the    *)
(* node and the browser.                                                   *)
Fairness == \A i \in 1..MaxPicks : WF_pageVars(Responds(i) \/ Settle(i))

DemoSpec == DemoInit /\ [][DemoNext]_pageVars /\ Fairness

-------------------------------------------------------------------------------
(* A verdict on the page is the verdict on the image next to it, whichever *)
(* of several requests finishes first, and the spinner turns exactly while *)
(* the newest image is still being inspected.                              *)
ShowsTheNewest ==
  /\ result # None => result.of = preview
  /\ spinner <=> current # 0
  /\ spinner => result = None

(* "Used to leave the spinner stuck forever": once the user stops picking, *)
(* the spinner goes, and the image still shown has its result.             *)
NeverStuck == <>[](~spinner /\ (preview # None => result # None))
===============================================================================
