------------------------------ MODULE MCStartup ------------------------------
(* Instances of Startup for TLC.                                           *)
EXTENDS Startup, TLC

Kinds == <<"rtsp", "local", "usb", "hisi", "rtmp", "rtsp">>

(* None, the known one, it twice, unknown ones as in config.json.          *)
SomeFeatures ==
  {<<>>, <<"monitor">>, <<"monitor", "monitor">>, <<"peoplecounting">>,
   <<"monitor", "peoplecounting">>}

SomeInputs ==
  {<<>>, <<1>>, <<2>>, <<1, 1>>, <<1, 6>>, <<3, 2>>, <<1, 2, 3>>, <<1, 4>>, <<5>>}
=============================================================================
