----------------------------- MODULE MCUploader -----------------------------
(* Small instances of Uploader: some files are as large as a batch may be.    *)
EXTENDS Uploader

Sizes == [f \in Files |-> IF f % 3 = 2 THEN 3 ELSE 1]
AllFiles == Files
=============================================================================
