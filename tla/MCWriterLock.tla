---------------------------- MODULE MCWriterLock ----------------------------
(* The instance MCWriterLock.cfg of WriterLock: two processes that share a  *)
(* home directory. Inodes, processes and threads are model values.          *)
EXTENDS WriterLock
=============================================================================
