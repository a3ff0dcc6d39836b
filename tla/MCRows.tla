------------------------------- MODULE MCRows -------------------------------
(* Two requests, two existing users, three names, two values of rules.        *)
(* Three uploads, two of one type and two of one size, so that columns that   *)
(* do not differ from the loaded ones are left out of an UPDATE.              *)
EXTENDS Rows

CONSTANTS pdf, text, name

Upload(bytes, size, type, filename) ==
    [content |-> bytes, contentSize |-> size, contentType |-> type, contentFilename |-> filename]

MCUploads == {Upload("A", 1, pdf, name), Upload("B", 2, pdf, None), Upload("C", 2, text, None)}

Symmetric == Permutations(Requests) \cup Permutations(Existing)
=============================================================================
