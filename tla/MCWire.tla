--------------------------------- MODULE MCWire ---------------------------------
(* Two messages.  Minimum ids in MCWire.cfg: 254, whose ids are 254 and 255, and  *)
(* 255, from which they wrap onto 0.  Other plugins announce the id 20.            *)
EXTENDS ExtensionWire

TwoClients == {"a", "b"}
=================================================================================
