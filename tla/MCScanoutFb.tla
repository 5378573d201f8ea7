---------------------------- MODULE MCScanoutFb ----------------------------
(* A card with two CRTCs, and one more address, handle and framebuffer id  *)
(* than CRTCs, so that a freed name may be reused or left alone.           *)
EXTENDS ScanoutFb
=============================================================================
