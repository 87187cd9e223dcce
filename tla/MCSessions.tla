---- MODULE MCSessions ----
(* One browser with two tabs that share localStorage.  Tab t1 has two calls, so  *)
(* that one can wait for the refresh of the other.                              *)
EXTENDS Sessions, TLC

CONSTANTS u1, b1, t1, t2, c1, c2, c3

OneBrowser == t1 :> b1 @@ t2 :> b1
CallsOfTabs == c1 :> t1 @@ c2 :> t1 @@ c3 :> t2
KindsOfCalls == c1 :> {"use", "login", "logout"} @@ c2 :> {"use"} @@ c3 :> {"use", "me"}
====
