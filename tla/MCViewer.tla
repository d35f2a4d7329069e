------------------------------ MODULE MCViewer ------------------------------
(* Small instances of Viewer for TLC; the .cfg files give the rest.          *)
EXTENDS Viewer

Letters == {"D", "f", "x", "d", "s", "g", "i", "S", "v", "V", "h"}
OneOrTwo == {<< >>} \cup {<<a>> : a \in Letters} \cup (Letters \X Letters)
=============================================================================
