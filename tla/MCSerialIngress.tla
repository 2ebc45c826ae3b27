--------------------------- MODULE MCSerialIngress ---------------------------
(* The bus carries frames with and without payload (one whose payload is a   *)
(* sync byte), invalid ones (bad check, bad length), single bytes, and the   *)
(* escape text, in front of, behind and inside one another.                  *)
EXTENDS SerialIngress

Frame == <<Sync0, Sync1, 1, Sync0, Good>>
Short == <<Sync0, Sync1, 0, Good>>
BadCheck == <<Sync0, Sync1, 0, Other>>
BadLength == <<Sync0, Sync1, Other>>
MCWires ==
  {Frame \o <<Other>>, Short \o <<Other>>, <<Sync0>> \o Short,
   BadCheck \o <<Other>>, BadLength \o <<Sync0>>, <<Other, Esc, Sync0>>,
   <<Other, Other, Other, Other>>}

\* To look for one thing: payload only; a sync byte at the end; a frame with a
\* byte in its middle.
Plain == {[i \in 1..7 |-> Other]}
Trailing == {<<Other, Sync0>>}
Split == {<<Sync0, Other, Sync1, 0, Good>>}
OneSize == {2}
Sizes == {2, 4}
=============================================================================
