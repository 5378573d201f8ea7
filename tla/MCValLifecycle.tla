--------------------------- MODULE MCValLifecycle ---------------------------
(* The Raspberry Pi 4: vc4 sets modes, v3d only renders; a display on USB  *)
(* may be a further card.  Sizes of two bits.                              *)
EXTENDS ValLifecycle

(* The cards come in the order in which their drivers were probed. *)
Orders == {<<"vc4", "v3d", "render">>, <<"v3d", "vc4">>, <<"vc4", "render", "usb">>, <<>>}

Max == [w |-> 3, h |-> 2]
Min == [w |-> 0, h |-> 0]
FileOf(max, min, planes) == [max |-> max, min |-> min, planes |-> planes]

(* No file; usual ones; sizes beyond 16 bits, negative, or the other way   *)
(* round; a plane named twice.                                             *)
SomeFiles == {FileOf(Unusable, Unusable, Unusable),
              FileOf([w |-> 3, h |-> 1], [w |-> 1, h |-> 1], <<"MAIN", "SUB">>),
              FileOf([w |-> 6, h |-> 1], Unusable, <<"MAIN", "MAIN">>),
              FileOf([w |-> -1, h |-> 1], [w |-> 5, h |-> 0], <<>>)}
=============================================================================
