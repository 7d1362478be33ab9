------------------------- MODULE MCSnapshotPipeline -------------------------
(* One importer and two tasks; the feed of one locale and one page. *)
EXTENDS SnapshotPipeline

CONSTANTS i1, t1, t2, feed, page

MCImporters == {i1}
MCSchedulers == {t1, t2}
MCFeeds == {feed}
MCPages == {page}
MCFresh == {1}
=============================================================================
