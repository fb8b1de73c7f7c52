-------------------------------- MODULE Mime --------------------------------
(***************************************************************************)
(* mime.c: the Content-Type of a path, a sequence of units as in HttpParse *)
(* in which the word after a dot is one unit.                              *)
(***************************************************************************)
EXTENDS Integers, Sequences

KnownTypes ==
  [html |-> "text/html", htm |-> "text/html", css |-> "text/css",
   js |-> "application/javascript", json |-> "application/json",
   png |-> "image/png", jpg |-> "image/jpeg", jpeg |-> "image/jpeg",
   gif |-> "image/gif", svg |-> "image/svg+xml", txt |-> "text/plain"]

OctetStream == "application/octet-stream"

(* Mutant: strchr for strrchr.                                             *)
FirstExtension(path) ==
  LET dots == {i \in DOMAIN path : path[i] = "."}
      dot  == CHOOSE i \in dots : \A j \in dots : i <= j
  IN  IF dots = {} THEN << >> ELSE SubSeq(path, dot + 1, Len(path))

(* What follows the last dot of the whole path; nothing if there is none.  *)
Extension(path) ==
  LET dots == {i \in DOMAIN path : path[i] = "."}
      dot  == CHOOSE i \in dots : \A j \in dots : j <= i
  IN  IF dots = {} THEN << >> ELSE SubSeq(path, dot + 1, Len(path))

mime_type(path) ==
  LET extension == Extension(path)
  IN  IF Len(extension) = 1 /\ extension[1] \in DOMAIN KnownTypes
      THEN KnownTypes[extension[1]]
      ELSE OctetStream

=============================================================================
