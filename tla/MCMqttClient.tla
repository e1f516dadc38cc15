---------------------------- MODULE MCMqttClient ----------------------------
(* Two meter topics.  The meter is on the broker with its powers apart on  *)
(* two topics, without publications; it is on a plain topic (a start may   *)
(* find that, an upload without bindings is refused half way); or another  *)
(* meter is chosen and its bindings wait for the signed power.             *)
EXTENDS MqttClient

Cfg(p, s, t, b) == [period |-> p, src |-> s, topic |-> t, bind |-> b]
Split == {<<"import", "a">>, <<"export", "b">>}

MCTopics == {"a", "b"}
MCConfigs == {Cfg(0, "Pmqtt", "none", Split), Cfg(1, "Pmqtt", "b", {}),
              Cfg(1, "Other", "none", {<<"signed", "b">>})}
=============================================================================
