------------------------------ MODULE CheckinMC -----------------------------
(***************************************************************************)
(* A small building for TLC, and the statements of the project's README    *)
(* and comments that the code is run against.                              *)
(***************************************************************************)
EXTENDS Checkin

\* What lies beside the array, where only the read of it matters.
AnyInt == -1 .. 3

\* What the form can send: every button on every floor, and on one of them
\* numbers beyond both ends of what the others lead to.
FormRequests ==
  {r \in [floor: Floors \cup {NoFloor}, action: Actions, value: {0}] :
     FromTheForm(r) /\ r.action # "set"}
    \cup [floor: {0}, action: {"set"}, value: {-1, MAX_OCCUPANCY + 1}]

\* Any client: floors on either side of the array, no floor at all, actions
\* the program does not know, numbers out of range.
AnyRequests ==
  [floor: {-4, 5}, action: {"", "unknown"}, value: {0}]
    \cup [floor: {1}, action: {"add"}, value: {0}]
    \cup [floor: {NoFloor}, action: {"set"}, value: {-1}]
    \cup [floor: {NoFloor}, action: {"", "unknown", "clear_all"}, value: {0}]

Garbage == {7}

\* README.md:75 of the project: "OLED: Exibe a ocupacao do andar selecionado".
\* With the loop at rest, and the transfer of the frame buffer never cut into,
\* the panel shows the selected floor and its count.
OledAtRest == pc = "idle" /\ controller = "ready" => panel = Now

\* A number large enough for the quotient of update_led_matrix to outgrow a
\* uint8_t, and ones that leave the row dark, partly lit and full.
SetRequests ==
  [floor: {0}, action: {"set"}, value: {0, 9, 30, 50, 2560}]
    \cup [floor: {NoFloor}, action: {""}, value: {0}]

\* README.md:77: "cada LED representa 10 pessoas".  With the loop at rest a
\* floor with enough people for all five LEDs has all five lit.
FullRowLit ==
  pc = "idle" /\ "matrix" \notin torn =>
    \A f \in Floors : occupancy[f] >= 5 * PER_LED
                      => \A col \in Columns : strip[f][col] = "red"
=============================================================================
