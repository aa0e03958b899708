------------------------------ MODULE MCRegistry ------------------------------
(***************************************************************************)
(* A small program for Registry: a stream request Place and a bare request *)
(* without a declared response; a plain and a stream handler competing for *)
(* Place, a stream handler that annotates the wrong chunk type, a handler  *)
(* for the bare request, and subscribers of one notification, one of them  *)
(* with a malformed __call__.  A configuration picks among these classes.  *)
(***************************************************************************)
EXTENDS Registry, TLC

CONSTANTS Place, Bare, PlaceHandler, PlaceStreamer, WrongStreamer, BareHandler,
          Email, Audit, Broken, Placed, Reply, Tick

MCDeclared == [q \in RequestTypes |-> IF q = Place THEN Reply ELSE None]

MCHandles == [h \in HandlerClasses |-> IF h = BareHandler THEN Bare ELSE Place]

MCReturns == [h \in HandlerClasses |-> IF h = WrongStreamer THEN Tick ELSE Reply]

MCSubscribes == [s \in SubscriberClasses |-> Placed]

ThreadSymmetry == Permutations(Threads)
=============================================================================
