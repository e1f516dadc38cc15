--------------------------- MODULE MCConfigImage ----------------------------
(* The stream of the first settings takes 234 of the cells.  The length of *)
(* one channel moves the end of the capacity over every block behind the   *)
(* channels and into the channels themselves, and at its greatest outgrows *)
(* the serializer; other changes fill the front or the tail with values    *)
(* other than the defaults, and one token or two.                          *)
EXTENDS ConfigImage

Token(n, label) == [id |-> n, label |-> label, secret |-> <<n, n, n, n, n, n, n, n>>]

Lengths == {1, 9} \cup {17 + 13 * k : k \in 0..10}

FrontChange == [
  ssid |-> <<110, 101>>, password |-> <<107>>, IP_Fixe |-> 7, MQTTUser |-> <<117>>,
  temperatureSensorName |-> <<118>>, slotLabel |-> <<<<118>>, <<119>>>>,
  ext_peer_port |-> 81, country |-> Country.US, freq_mode |-> 1, freq_hz |-> 50, nominal_v |-> 115,
  httpApiPassword |-> <<112>>, pwmGpio |-> 12, pwmMode |-> 1, LTARF |-> <<84>>,
  rte_today |-> <<66>> ]

TailChange == [
  coeffs |-> <<5, 6, 7, 1>>, expert_regulation_mode |-> 1, regulation_gain |-> 3,
  vacationEnabled |-> 1, vacationEndEpoch |-> 8, maxRoutedW |-> 9,
  triacOffWhenSourceStale |-> 1, triacBackoffWhenHeaterIdle |-> 1,
  actionDailyCapWh |-> 11, self_test |-> 28, run_epoch |-> 12, zc_edges_per_sec |-> 100,
  cal_enabled |-> 1, cal_duty |-> <<25, 50, 75>>, cal_w |-> <<13, 14, 15>>,
  statusLedMode |-> 2, statusLedRgbGpio |-> 16, statusLedColorAp |-> <<17, 18, 19>>,
  slotEnabled |-> <<1, 1>>, slotLow |-> <<20, 21>>, slotHigh |-> <<22, 23>>,
  victron_broker_ip |-> 24, VictronPortalId |-> <<99>>, VictronSurplusMode |-> 2,
  tokens |-> <<Token(1, <<97>>), Token(2, <<98>>)>> ]

MCChanges ==
  {[channels |-> <<n>>] : n \in Lengths}
  \cup {FrontChange, TailChange, [channels |-> <<4, 2>>, country |-> Country.ZZ, nominal_v |-> 240],
        [tokens |-> <<Token(3, <<>>)>>], [PmqttBindingsJson |-> <<91, 51, 93>>]}

MCOld == {FrontChange, [tokens |-> <<Token(1, <<97>>)>>], [channels |-> <<90>>]}
=============================================================================
