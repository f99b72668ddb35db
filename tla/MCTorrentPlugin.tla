---------------------------- MODULE MCTorrentPlugin ----------------------------
(* Instances of TorrentPlugin: endpoints and peer ids are model values, and    *)
(* interchangeable.                                                             *)
EXTENDS TorrentPlugin, TLC

CONSTANTS e1, e2, e3, p1, p2, p3

TwoEndPoints == {e1, e2}
ThreeEndPoints == {e1, e2, e3}
TwoPeerIds == {p1, p2}
ThreePeerIds == {p1, p2, p3}

PeerSymmetry == Permutations(EndPoints) \cup Permutations(PeerIds)

AllHandshakes == ExtendedHandshakes

\* Peers that never send a mapping fromMDictionary refuses.
CorrectHandshakes == ExtendedHandshakes \ {"invalid mapping"}
================================================================================
