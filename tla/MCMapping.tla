------------------------------- MODULE MCMapping -------------------------------
(* Two messages.  Clients with every minimum message id from 0 to 300: ids that *)
(* fit, ids that wrap around 256 and starts that are truncated.  Foreign        *)
(* clients with every dictionary of at most three entries over the values where *)
(* the code decides: negative, zero, small, truncated to 0 and to 1, and values *)
(* that are no integer.  The prefix plays no part in reading.                   *)
EXTENDS MappingExchange

MCMinimumMessageIds == 0 .. 300

MCOtherPlugins == { << >>, << Entry("own", 0, 1) >>, << Entry("foreign", 0, 7) >>,
                    << NonIntegerEntry("foreign", 1) >> }

MCValues == {-1, 0, 1, 2, 256, 257}

MCEntries ==
  {Entry("own", m, v) : m \in Messages, v \in MCValues}
    \cup {NonIntegerEntry("own", m) : m \in Messages}

MCForeignDictionaries == UNION {[1 .. n -> MCEntries] : n \in 0 .. 3}
=============================================================================
