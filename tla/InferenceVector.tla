--------------------------- MODULE InferenceVector ---------------------------
(***************************************************************************)
(* The data of one inference on the side of the application                *)
(* (openrt::InferenceVector and the DataBuffers it owns).                  *)
(*                                                                         *)
(* A vector has one entry for each mapping of the network:                 *)
(*   data   the memory the vector allocated for it, of the mapping's size  *)
(*   held   how many bytes its std::vector says it has                     *)
(*   own    whether the QBuffer points there or to user                    *)
(*   user   the memory of the application the QBuffer points to if not own *)
(*   size   the size in the QBuffer                                        *)
(* A file is the sequence of its bytes, or Missing.                        *)
(***************************************************************************)
EXTENDS PrePostProc

QS_SUCCESS == "QS_SUCCESS"
QS_ERROR   == "QS_ERROR"
QS_INVAL   == "QS_INVAL"

Missing  == <<[of |-> <<"missing">>, at |-> 0]>>
Zero     == [of |-> <<"zero">>, at |-> 0]
Memory(n, cell(_)) == [o \in 0..(n - 1) |-> cell(o)]
NoMemory == Memory(0, LAMBDA o : Zero)

Inputs(mappings)  == {i \in DOMAIN mappings : mappings[i].ioType = In}
Outputs(mappings) == {i \in DOMAIN mappings : mappings[i].ioType = Out}

\* What the QBuffer of an entry gives: its size, of the memory it points to.
Pointed(e)    == IF e.own THEN e.data ELSE e.user
Content(e)    == [k \in 1..e.size |-> Source(Pointed(e), k - 1)]
DataBuffer(n) == [data |-> Memory(n, LAMBDA o : Zero), held |-> n, own |-> TRUE,
                  user |-> NoMemory, size |-> n]

allocate(mappings) == [i \in DOMAIN mappings |-> DataBuffer(mappings[i].size)]

fillRandomUnBounded(vec, mappings) ==
  [i \in DOMAIN vec |->
     IF mappings[i].ioType = Out THEN vec[i]
     ELSE [vec[i] EXCEPT !.data = Memory(mappings[i].size, LAMBDA o : [of |-> <<"random">>, at |-> o])]]

-----------------------------------------------------------------------------
(* Files.                                                                  *)

\* loadFile: into the memory of the vector, wherever the QBuffer points.
loadFile(e, file) == [e EXCEPT !.data = Fill(@, 0, Len(file), LAMBDA k : file[k + 1])]
CanLoad(mapping, file) == mapping.size # 0 /\ file # Missing /\ Len(file) <= mapping.size

\* std::vector::resize: what it grows by becomes zero, the file's last bytes if
\* a shorter file was loaded before.
shrinkBuffer(e, n) ==
  [e EXCEPT !.data = IF n > e.held THEN Fill(@, e.held, n - e.held, LAMBDA k : Zero) ELSE @,
            !.held = n, !.size = n]

\* Only a file shorter than its buffer changes the size in the QBuffer.
LoadOne(mappings, files, acc, i) ==
  LET e == loadFile(acc.vec[i], files[i]) IN
  IF acc.status # QS_SUCCESS \/ mappings[i].ioType = Out THEN acc
  ELSE IF ~CanLoad(mappings[i], files[i]) THEN [acc EXCEPT !.status = QS_ERROR]
  ELSE IF Len(files[i]) = mappings[i].size THEN [acc EXCEPT !.vec[i] = e]
  ELSE IF mappings[i].isPartialBufferAllowed
       THEN [acc EXCEPT !.vec[i] = shrinkBuffer(e, Len(files[i]))]
       ELSE [status |-> QS_ERROR, vec |-> [acc.vec EXCEPT ![i] = e]]

loadFileSet(vec, mappings, files) ==
  IF files = <<>>
  THEN [status |-> IF Inputs(mappings) = {} THEN QS_SUCCESS ELSE QS_INVAL, vec |-> vec]
  ELSE IF vec = <<>> \/ Len(files) \notin {Cardinality(Inputs(mappings)), Len(mappings)}
  THEN [status |-> QS_ERROR, vec |-> vec]
  ELSE FoldLeftDomain(LAMBDA acc, i : LoadOne(mappings, files, acc, i),
                      [status |-> QS_SUCCESS, vec |-> vec], mappings)

\* init(): an object that failed to load its files is not made.
init(mappings, source, files) ==
  LET vec == allocate(mappings) IN
  CASE source = "RANDOM"  -> [status |-> QS_SUCCESS, vec |-> fillRandomUnBounded(vec, mappings)]
    [] source = "FILESET" -> loadFileSet(vec, mappings, files)
    [] OTHER              -> [status |-> QS_SUCCESS, vec |-> vec]

-----------------------------------------------------------------------------
(* Buffers of the application, as memories.                                *)

QBuffer(e, memory) == [e EXCEPT !.own = FALSE, !.user = memory, !.size = Cardinality(DOMAIN memory)]

\* The entries from first on take the buffers.
Put(vec, first, buffers) ==
  [i \in DOMAIN vec |-> IF i - first + 1 \in DOMAIN buffers THEN QBuffer(vec[i], buffers[i - first + 1])
                        ELSE vec[i]]

setBuffers(vec, buffers) ==
  IF Len(buffers) > Len(vec) THEN [status |-> QS_INVAL, vec |-> vec]
  ELSE [status |-> QS_SUCCESS, vec |-> Put(vec, 1, buffers)]

\* A size that is not the mapping's is logged, no more.
setInputBuffers(vec, mappings, buffers) ==
  IF Len(buffers) # Cardinality(Inputs(mappings)) THEN [status |-> QS_INVAL, vec |-> vec]
  ELSE [status |-> QS_SUCCESS, vec |-> Put(vec, 1, buffers)]

setOutputBuffers(vec, mappings, buffers) ==
  IF Len(buffers) # Cardinality(Outputs(mappings)) THEN [status |-> QS_INVAL, vec |-> vec]
  ELSE [status |-> QS_SUCCESS,
        vec |-> Put(vec, 1 + Cardinality({i \in DOMAIN mappings :
                                            \A j \in 1..i : mappings[j].ioType # Out}), buffers)]

=============================================================================
