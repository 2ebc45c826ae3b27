---------------------------- MODULE MCConfigStore ----------------------------
(* Two settings, one with limits and one that is mapped on loading, and three *)
(* values: enough for a store that mixes two configurations.  A text session  *)
(* and the web server save; the session also resets, as the button would.     *)
EXTENDS ConfigStore

CONSTANTS odd, bound, factory, uart, udp, web, main

ThreeValues == {odd, bound, factory}
First == {1}
Second == {2}
OneText == {uart}
TwoTexts == {uart, udp}
OneWeb == {web}
=============================================================================
