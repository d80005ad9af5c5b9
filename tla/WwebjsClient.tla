---------------------------- MODULE WwebjsClient ----------------------------
(***************************************************************************)
(* One WhatsAppWebJsAdapter (engine/adapters/whatsapp-web-js.adapter.ts),   *)
(* from initialize to the end of its session: the client it holds, the      *)
(* events of that client, and the ways to end it.                           *)
(*                                                                         *)
(* whatsapp-web.js and its browser are external.  The client's destroy      *)
(* throws while there is no browser yet, and the launch under way then goes *)
(* on; otherwise it closes the browser, after which there are no events.    *)
(* Rendering a QR code takes an await.  The operations are modelled as in   *)
(* BaileysConnection: a check, a preparation, and the use of the client.    *)
(***************************************************************************)
EXTENDS Naturals

VARIABLES
  clientStatus,     \* this.status
  client,           \* whether this.client is there
  browser,          \* the client's browser
  initializing,     \* whether initialize is awaiting the client
  qrRendering,      \* whether a QR code is being rendered
  ending,           \* the call that ends the session
  using,            \* an operation: what it awaits before it uses the client, or what it found
  early,            \* history: the end was asked for before there was a browser
  late,             \* history: an image or initialize's failure came after its time
  usedLate          \* history: an operation used a browser after the end

wwebjsVars == <<clientStatus, client, browser, initializing, qrRendering, ending, using, early,
                late, usedLate>>

Ways == {"disconnect", "destroy", "logout"}

(* The type invariant.                                                     *)
TypeOK ==
  /\ clientStatus \in {"DISCONNECTED", "INITIALIZING", "QR_READY", "AUTHENTICATING", "READY", "FAILED"}
  /\ client \in BOOLEAN /\ initializing \in BOOLEAN /\ qrRendering \in BOOLEAN
  /\ browser \in {"launching", "pairing", "ready", "gone"}
  /\ ending \in {"no", "done"} \cup Ways
  /\ using \in {"no", "prepares", "found"} /\ early \in BOOLEAN /\ late \in BOOLEAN /\ usedLate \in BOOLEAN

(* initialize, to its await.                                                *)
Init ==
  /\ clientStatus = "INITIALIZING" /\ client = TRUE
  /\ browser = "launching" /\ initializing = TRUE
  /\ qrRendering = FALSE /\ ending = "no" /\ using = "no"
  /\ early = FALSE /\ late = FALSE /\ usedLate = FALSE

Reports(status) == clientStatus' = status

-----------------------------------------------------------------------------
(* initialize and the client's events (setupEventHandlers).  A destroy that *)
(* throws does so before anything else happens.                             *)
BrowserUp ==
  /\ browser = "launching" /\ ending \notin Ways
  /\ browser' = "pairing"
  /\ UNCHANGED <<clientStatus, client, initializing, qrRendering, ending, using, early, late, usedLate>>

InitReturns ==
  /\ initializing /\ browser # "launching"
  /\ initializing' = FALSE
  /\ UNCHANGED <<clientStatus, client, browser, qrRendering, ending, using, early, late, usedLate>>

(* The browser cannot be launched, or WhatsApp's page cannot be prepared.   *)
InitFails ==
  /\ initializing /\ browser # "ready"
  /\ initializing' = FALSE
  /\ browser' \in {"gone"} \cup ({browser} \ {"launching"})
  /\ Reports("FAILED")
  /\ late' = (late \/ ending = "done")
  /\ UNCHANGED <<client, qrRendering, ending, using, early, usedLate>>

OnQr ==
  /\ browser = "pairing" /\ ~qrRendering
  /\ qrRendering' = TRUE
  /\ UNCHANGED <<clientStatus, client, browser, initializing, ending, using, early, late, usedLate>>

QrRendered ==
  /\ qrRendering
  /\ qrRendering' = FALSE
  /\ Reports("QR_READY")
  /\ late' = (late \/ clientStatus \notin {"INITIALIZING", "QR_READY"} \/ ending = "done")
  /\ UNCHANGED <<client, browser, initializing, ending, using, early, usedLate>>

OnAuthenticated ==
  /\ browser = "pairing"
  /\ Reports("AUTHENTICATING")
  /\ UNCHANGED <<client, browser, initializing, qrRendering, ending, using, early, late, usedLate>>

OnReady ==
  /\ browser = "pairing"
  /\ browser' = "ready"
  /\ Reports("READY")
  /\ UNCHANGED <<client, initializing, qrRendering, ending, using, early, late, usedLate>>

(* disconnected, with which the library closes its browser; auth_failure.   *)
OnDisconnected ==
  /\ browser \in {"pairing", "ready"}
  /\ browser' = "gone"
  /\ Reports("DISCONNECTED")
  /\ UNCHANGED <<client, initializing, qrRendering, ending, using, early, late, usedLate>>

OnAuthFailure ==
  /\ browser = "pairing"
  /\ Reports("FAILED")
  /\ UNCHANGED <<client, browser, initializing, qrRendering, ending, using, early, late, usedLate>>

-----------------------------------------------------------------------------
(* disconnect, destroy and logout: nothing is done without a client.        *)
EndBegins(way) ==
  /\ client /\ ending = "no"
  /\ ending' = way
  /\ early' = (browser = "launching")
  /\ UNCHANGED <<clientStatus, client, browser, initializing, qrRendering, using, late, usedLate>>

MutantForgetsStatus ==
  /\ ending \in Ways
  /\ IF ending = "destroy" /\ early
     THEN ending' = "no" /\ UNCHANGED <<client, clientStatus, browser>>
     ELSE /\ client' = FALSE /\ ending' = "done" /\ UNCHANGED clientStatus
          /\ browser' = IF early THEN browser ELSE "gone"
  /\ UNCHANGED <<initializing, qrRendering, using, early, late, usedLate>>

(* The client's call has returned, or thrown.  disconnect and logout go on  *)
(* either way; destroy passes the error on and leaves everything as it was. *)
EndReturns ==
  /\ ending \in Ways
  /\ IF ending = "destroy" /\ early
     THEN ending' = "no" /\ UNCHANGED <<client, clientStatus, browser>>
     ELSE /\ client' = FALSE /\ ending' = "done" /\ Reports("DISCONNECTED")
          /\ browser' = IF early THEN browser ELSE "gone"
  /\ UNCHANGED <<initializing, qrRendering, using, early, late, usedLate>>

-----------------------------------------------------------------------------
(* The operations: ensureReady, what is awaited before the client is used,  *)
(* and its use; without a client the call fails.                            *)
Operates(step) ==
  /\ using' = step
  /\ UNCHANGED <<clientStatus, client, browser, initializing, qrRendering, ending, early, late, usedLate>>

ensureReady ==
  /\ using = "no" /\ clientStatus = "READY" /\ client
  /\ Operates("prepares")

(* Sends, and whatever else is one call of the client.                      *)
UsesClient ==
  /\ using = "prepares"
  /\ using' = "no"
  /\ usedLate' = (usedLate \/ (client /\ browser = "ready" /\ ending = "done"))
  /\ UNCHANGED <<clientStatus, client, browser, initializing, qrRendering, ending, early, late>>

(* Groups, replies, reactions, labels and contacts: the client is asked for  *)
(* a chat, which keeps that client.                                         *)
FindsChat ==
  /\ using = "no" /\ clientStatus = "READY" /\ client
  /\ Operates("found")

(* The message is not among the chat's, or the chat is no group.            *)
NotFound == using = "found" /\ Operates("no")

(* The chat, or a message of it, acts by itself.                            *)
ActsOnFound ==
  /\ using = "found"
  /\ using' = "no"
  /\ usedLate' = (usedLate \/ (browser = "ready" /\ ending = "done"))
  /\ UNCHANGED <<clientStatus, client, browser, initializing, qrRendering, ending, early, late>>

(* A history reads message after message, each with its media.              *)
ReadsOn ==
  /\ using = "found"
  /\ usedLate' = (usedLate \/ (browser = "ready" /\ ending = "done"))
  /\ UNCHANGED <<clientStatus, client, browser, initializing, qrRendering, ending, using, early, late>>

Next ==
  \/ BrowserUp \/ InitReturns \/ InitFails
  \/ OnQr \/ QrRendered \/ OnAuthenticated \/ OnReady \/ OnDisconnected \/ OnAuthFailure
  \/ \E way \in Ways : EndBegins(way)
  \/ EndReturns \/ ensureReady \/ UsesClient
  \/ FindsChat \/ NotFound \/ ActsOnFound \/ ReadsOn

Spec == Init /\ [][Next]_wwebjsVars

-----------------------------------------------------------------------------
(* Properties.                                                             *)

(* Once the session was ended no operation uses a browser, and unless the   *)
(* end was asked for while the browser was being launched, none runs and    *)
(* the status stays DISCONNECTED but for the image of an earlier QR code or *)
(* the failure of the initialize that the end cut short.                    *)
StopIsFinal ==
  ending = "done" =>
    /\ ~client /\ ~usedLate
    /\ ~early => browser = "gone" /\ (clientStatus = "DISCONNECTED" \/ late)

(* Why: the client is there until the end has been gone through, nothing is *)
(* in use before the first READY, and an end that came with the browser up  *)
(* takes it down.                                                          *)
EndInv ==
  /\ TypeOK
  /\ client <=> ending # "done"
  /\ ~usedLate
  /\ browser = "launching" => using = "no" /\ clientStatus # "READY"
  /\ early /\ ending # "no" => using = "no"
  /\ early /\ ending \in Ways => browser \in {"launching", "gone"} /\ clientStatus # "READY"
  /\ ending = "done" /\ ~early => browser = "gone" /\ (clientStatus = "DISCONNECTED" \/ late)
=============================================================================
