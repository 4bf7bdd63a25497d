-------------------------------- MODULE IOErr --------------------------------
(***************************************************************************)
(* How an I/O error travels from the operating system to the Roc program:  *)
(* roc_io_error turns a std::io::ErrorKind into a tag byte, and the Roc    *)
(* type of the calling module (platform/*.roc) decides what that byte      *)
(* means there. Roc numbers the tags of a union alphabetically.            *)
(***************************************************************************)
EXTENDS Naturals, Sequences

(* The kinds the modelled calls produce; those after OutOfMemory have no tag. *)
ErrorKinds == {"NotFound", "PermissionDenied", "AlreadyExists", "BrokenPipe",
               "Interrupted", "Unsupported", "OutOfMemory",
               "NotADirectory", "DirectoryNotEmpty", "IsADirectory", "InvalidData",
               "InvalidInput", "StorageFull", "Signalled"}

(* enum IOErrTag: tag n is entry n + 1. *)
HostTags == <<"AlreadyExists", "BrokenPipe", "Interrupted", "NotFound", "Other",
              "OutOfMemory", "PermissionDenied", "Unsupported">>

TagByte(tag) == (CHOOSE n \in 1..Len(HostTags) : HostTags[n] = tag) - 1

(* IOErr::from_io_error, then the byte written into the result. *)
FromIoErrorByPosition(kind) ==
  LET known == <<"NotFound", "PermissionDenied", "AlreadyExists", "BrokenPipe",
                 "Other", "Interrupted", "Unsupported", "OutOfMemory">>
  IN  IF \E n \in 1..8 : known[n] = kind
        THEN (CHOOSE n \in 1..8 : known[n] = kind) - 1 ELSE TagByte("Other")
FromIoError(kind) ==
  TagByte(IF kind \in {"NotFound", "PermissionDenied", "AlreadyExists", "BrokenPipe",
                       "Interrupted", "Unsupported", "OutOfMemory"}
            THEN kind ELSE "Other")

(* IOErr as declared by File, Path, Cmd and the standard streams ... *)
CommonRocTags == <<"AlreadyExists", "BrokenPipe", "Interrupted", "NotFound", "Other",
                   "OutOfMemory", "PermissionDenied", "Unsupported">>
(* ... and by Dir. *)
DirRocTags == <<"AlreadyExists", "NotADirectory", "NotEmpty", "NotFound", "Other",
                "PermissionDenied">>

(* The tag the Roc program matches on; a byte past the last tag has none. *)
Decode(tags, byte) ==
  IF byte < Len(tags) THEN tags[byte + 1] ELSE "no such tag"

(* What the documentation of the tags makes of an error kind. *)
Meaning(tags, kind) ==
  IF \E n \in 1..Len(tags) : tags[n] = kind THEN kind ELSE "Other"
=============================================================================
