---------------------------- MODULE MCCloudDrive ----------------------------
(***************************************************************************)
(* The cloud drive alone, with an upload that may be empty.                *)
(***************************************************************************)
EXTENDS CloudDrive

MCNames == {"404.html", "uploaded_file.dat", "f"}
MCDatas == {<<"x">>, <<>>}
=============================================================================
