----------------------------- MODULE MCUploads -----------------------------
EXTENDS Uploads

\* A request with two images beside one with a single image.
MCFiles == [b1 |-> 2, b2 |-> 1]
=============================================================================
