---------------------------- MODULE MCSipDialog ----------------------------
(***************************************************************************)
(* The scenes of the runs of SipDialog.                                    *)
(***************************************************************************)
EXTENDS SipDialog

Scene(d, lossy, re) == [dir |-> d, lossy |-> lossy, re |-> re]

\* Calls in both directions over a lossy network, the refresh of one that was
\* answered, and re-INVITEs from both ends that cross.
DialogScenes == {Scene("out", TRUE, {}), Scene("in", TRUE, {"pbx"}), Scene("in", FALSE, {"gw", "pbx"})}

\* The shortest dialogs: nothing is lost, nothing is repeated in vain.
PlacedScenes   == {Scene("out", FALSE, {})}

=============================================================================
