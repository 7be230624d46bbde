-------------------------- MODULE FileTransporter --------------------------
(***************************************************************************)
(* Files in and out of a client's directory (file_transporter.hpp).  A     *)
(* directory has files, a function from their paths to their bytes, and    *)
(* folders, the paths of those that can take a new file: <<>> is the       *)
(* directory the client was started in.  A path has one spelling: it is    *)
(* relative, with a name before and after each slash.                      *)
(***************************************************************************)
EXTENDS Naturals, SequencesExt, Null

CONSTANT MAX_FILE_SIZE

Slash == 47

\* What strlen() and << see of an array that ends with a zero
CString(bytes) ==
    LET zero == SelectInSeq(bytes, LAMBDA b : b = 0)
    IN  IF zero = 0 THEN bytes ELSE SubSeq(bytes, 1, zero - 1)

\* None: there is no such file, or it is too big
FileToChar(dir, filePath) ==
    IF filePath \in DOMAIN dir.files /\ Len(dir.files[filePath]) <= MAX_FILE_SIZE
    THEN CString(dir.files[filePath])
    ELSE None

\* access() fails with ENOENT only if nothing is there; a file on the way to the
\* path is another error, which counts as existing
DoesFileExist(dir, filePath) ==
    \/ filePath \in DOMAIN dir.files \cup dir.folders
    \/ \E f \in DOMAIN dir.files : IsPrefix(Append(f, Slash), filePath)

\* The file system's: a file is created in a folder that is there
FolderOf(filePath) == SubSeq(filePath, 1, SelectLastInSeq(filePath, LAMBDA b : b = Slash) - 1)

\* open() and <<: an open() that fails leaves everything as it is
Stored(dir, filePath, contents) ==
    IF FolderOf(filePath) \in dir.folders
    THEN [dir EXCEPT !.files = (filePath :> contents) @@ @]
    ELSE dir

\* Slip: a file of the same name is replaced
CharToFileOver(dir, filePath, contents) ==
    [dir |-> Stored(dir, filePath, contents), result |-> TRUE]

\* A file that exists is left as it is; whether open() failed is not looked at
CharToFile(dir, filePath, contents) ==
    IF DoesFileExist(dir, filePath)
    THEN [dir |-> dir, result |-> FALSE]
    ELSE [dir |-> Stored(dir, filePath, contents), result |-> TRUE]
=============================================================================
