------------------------------- MODULE MCPlugin -------------------------------
(* Instances of Plugin.                                                        *)
EXTENDS Plugin

CONSTANTS t1

OneTorrent == {t1}

AllKinds == PluginRequests \cup LibtorrentRequests \cup StatusRequests \cup GlobalRequests

\* Requests that set a session up, and the ones that bring it down.
SessionKinds == {"start", "stop", "pause", "to mode", "stop all"}
===============================================================================
