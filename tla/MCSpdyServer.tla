---------------------------- MODULE MCSpdyServer ----------------------------
(* Two connections, the first one with two streams; few descriptors, so that  *)
(* they run out and are reused.                                              *)
EXTENDS SpdyServer

MCMaxStreams == <<2, 1>>
=============================================================================
