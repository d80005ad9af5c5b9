----------------------------- MODULE MCComponents -----------------------------
(* The small instances of the components that TLC checks.                   *)
EXTENDS Components, TLC

(* Of the two plugins, as auto-reply and translation are.                   *)
MCPriority == [first |-> 1, second |-> 2]

(* The administrator is listed with a domain that messages do not carry.    *)
MCUserPart == [id \in {"admin", "admin@c.us", "bob"} |-> IF id = "bob" THEN "2" ELSE "1"]

(* One message is sent from the chat page, the other by the other chat's    *)
(* contact.                                                                 *)
MCChatOf == 1 :> "a" @@ 2 :> "b"

(* The first incoming message may be anything and is revoked and reacted    *)
(* to; the second makes lookups overlap.                                    *)
MCMay == [m \in {1, 2} |->
  IF m = 1 THEN [kind : {"text", "own", "status"}, from : {"none", "a"}]
           ELSE [kind : {"text"}, from : {"a", "b"}]]

MCServices == <<"postgres", "redis">>

(* The host's environment marks the cache as built in.                      *)
MCGiven == <<"redis", "builtIn">> :> TRUE
===============================================================================
