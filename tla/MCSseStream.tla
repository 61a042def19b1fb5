---------------------------- MODULE MCSseStream ----------------------------
(***************************************************************************)
(* Two requests, three events and a connection of one, so that slow        *)
(* clients are cut: the default settings with a window that overflows the  *)
(* connection and with one that leaves events behind, and streams made on  *)
(* demand without replay, which are removed when they are empty.           *)
(***************************************************************************)
EXTENDS SseStream

Setting(stream, replay, size) ==
    [autoStream |-> stream, autoReplay |-> replay, eventLogSize |-> size]

MCOptions == {Setting(FALSE, TRUE, 2), Setting(FALSE, TRUE, 1), Setting(TRUE, FALSE, 1)}
=============================================================================
