----------------------------- MODULE MCEfiStub -----------------------------
(* EfiStub with maps of up to six descriptors and four firmware events.    *)
EXTENDS EfiStub
=============================================================================
