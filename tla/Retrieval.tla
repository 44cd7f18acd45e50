------------------------------- MODULE Retrieval -------------------------------
(***************************************************************************)
(* The analysis of one log file by the worker (rag/pipeline.py,            *)
(* rag/embedder.py, rag/chroma_store.py, rag/chunker.py, llm_filter.py,    *)
(* llm_client.py): a small file is sent to the model as it is; of a larger *)
(* one the chunks are embedded and indexed, and only the segments nearest  *)
(* to a standing query are sent.  Meanwhile the file grows, the user       *)
(* cancels or changes the embedding model, and calls fail.                 *)
(*                                                                         *)
(* The size of a text is its number of lines.                              *)
(***************************************************************************)
EXTENDS LineText, SequencesExt

CONSTANTS
  Models,        \* embedding models
  LoadMax,       \* LLM_MAX_FILE_BYTES
  DirectMax,     \* LLM_DIRECT_MAX_BYTES
  RagMax,        \* RAG_MAX_LINES
  ChunkSize, Overlap, ChunksMax,  \* RAG_CHUNK_LINES, RAG_CHUNK_OVERLAP, RAG_MAX_CHUNKS
  BatchSize, Retries,             \* EMBED_BATCH_SIZE, EMBED_MAX_RETRIES
  RequestMax,    \* EMBED_MAX_TOKENS_PER_REQUEST, 0 for no limit
  ServerMax,     \* what a request to the server may hold
  AddBatch,      \* _CHROMA_ADD_BATCH
  TopK,          \* RAG_TOP_K
  MaxFile, MaxJobs, MaxTrouble  \* bounds: lines, jobs, failures

ASSUME RetrievalAssumption ==
  /\ {LoadMax, DirectMax, RagMax, ChunkSize, ChunksMax, BatchSize, Retries, ServerMax,
      AddBatch, TopK, MaxFile, MaxJobs} \subseteq Nat \ {0}
  /\ Overlap \in Nat /\ RequestMax \in Nat /\ MaxTrouble \in Nat

VARIABLES
  file,      \* the lines of the file: TRUE for one of level INFO or DEBUG
  provider,  \* who embeds: ollama or openai
  setting,   \* the embedding model in the settings
  cached,    \* _cached_ollama_embed_model
  job,       \* the job: status, where it is, what it has read
  batch, attempt,  \* the batch being embedded, and how often it failed
  call,      \* the attempt: its model, the requests a split left over, the vectors so far
  vectors,   \* the embeddings so far
  index,     \* the Chroma collections, by the size of the file when it was hashed
  prompt,    \* the lines sent to the model
  slipped,   \* history: a batch was embedded and its progress not recorded
  jobs, trouble  \* counters for the bounds

world == <<file, provider, setting>>
retrievalVars == <<file, provider, setting, cached, job, batch, attempt, call, vectors, index,
                   prompt, slipped, jobs, trouble>>

NoneYet == "none"
NoJob == [status |-> "none", at |-> "idle", lines |-> <<>>, chunks |-> <<>>, mode |-> "none",
          skips |-> FALSE]
Lesser(m, n) == IF m < n THEN m ELSE n
LastOf(s, n) == SubSeq(s, IF Len(s) > n THEN Len(s) - n + 1 ELSE 1, Len(s))

-----------------------------------------------------------------------------
(* Pure parts *)

\* filter_lines_for_llm: the numbers of the lines that are kept, all of them
\* unless LLM_SKIP_LOW_LEVELS is set.
Kept(from, to, skips) == InOrder({n \in from..Lesser(to, Len(file)) : ~(skips /\ file[n])})

\* chunk_lines
Chunks(ls) ==
  LET step == ChunkSize - Lesser(Overlap, ChunkSize - 1)
      count == (Len(ls) + step - 1) \div step
  IN  [k \in 1..count |-> SubSeq(ls, (k - 1) * step + 1, Lesser((k - 1) * step + ChunkSize, Len(ls)))]

\* _lines_for_rag, _chunks_for_rag
RagChunks(ls) == LastOf(Chunks(LastOf(ls, RagMax)), ChunksMax)

Sizes(texts) == FoldLeft(LAMBDA n, t : n + Len(t), 0, texts)

\* resolve_embed_model: an Ollama model that was found is remembered for a minute,
\* whatever the settings say since.
Resolved == IF provider = "ollama" /\ cached # NoneYet THEN cached ELSE setting
Remember == cached' = IF provider = "ollama" THEN Resolved ELSE cached

-----------------------------------------------------------------------------
(* The world around the job *)

NoCall == [model |-> NoneYet, left |-> <<>>, got |-> <<>>]
jobVars == <<job, batch, attempt, call, vectors, index, prompt, slipped, jobs>>

Grow ==
  /\ Len(file) < MaxFile
  /\ \E low \in BOOLEAN : file' = Append(file, low)
  /\ UNCHANGED <<provider, setting, cached, jobVars, trouble>>

ChangeModel ==
  /\ trouble < MaxTrouble /\ trouble' = trouble + 1
  /\ \E m \in Models \ {setting} : setting' = m
  /\ UNCHANGED <<file, provider, cached, jobVars>>

Expire ==
  /\ cached # NoneYet /\ cached' = NoneYet
  /\ UNCHANGED <<world, jobVars, trouble>>

\* cancel_job
CancelJob ==
  /\ job.status = "running" /\ job' = [job EXCEPT !.status = "cancelled"]
  /\ UNCHANGED <<world, cached, batch, attempt, call, vectors, index, prompt, slipped, jobs, trouble>>

-----------------------------------------------------------------------------
(* The job *)

At(place) == job.at = place
\* A report asks first whether the job was cancelled: then it ends.
EndCancelled == job' = [job EXCEPT !.at = "idle"]
Going == job.status # "cancelled"

\* Any other exception ends the job in the worker, whatever its status is.
EndFailed == job' = [job EXCEPT !.at = "idle", !.status = "failed"]

StartJob ==
  /\ At("idle") /\ jobs < MaxJobs /\ jobs' = jobs + 1
  /\ job' = [NoJob EXCEPT !.status = "running", !.at = "read"]
  /\ prompt' = <<>> /\ vectors' = <<>> /\ call' = NoCall
  /\ batch' = 0 /\ attempt' = 0 /\ slipped' = FALSE
  /\ UNCHANGED <<world, cached, index, trouble>>

\* The job with the lines that were read.
Loaded(ls, size, skips) ==
  LET chunks == IF size <= DirectMax THEN <<>> ELSE RagChunks(ls)
  IN  [job EXCEPT !.lines = ls, !.skips = skips, !.chunks = chunks,
                  !.mode = IF chunks = <<>> THEN "direct" ELSE "rag",
                  !.at = IF chunks = <<>> THEN "ask" ELSE "embed"]

\* The whole file, or a time range: its last lines, with LLM_SKIP_LOW_LEVELS as it
\* is set by then.  A small one is sent as it is; for a larger one an embedding
\* model must be there.
ReadFile ==
  /\ At("read")
  /\ \/ ~Going /\ EndCancelled /\ UNCHANGED cached
     \/ /\ Going
        /\ \E window, skips \in BOOLEAN, from \in 1..(Len(file) + 1) :
             LET ls == Kept(from, IF window THEN Len(file) ELSE LoadMax, skips)
                 size == IF window THEN Len(ls) ELSE Len(file)
             IN  /\ ~window => from = 1
                 /\ job' = Loaded(ls, size, skips)
                 /\ IF size <= DirectMax THEN UNCHANGED cached ELSE Remember
  /\ UNCHANGED <<world, batch, attempt, call, vectors, index, prompt, slipped, jobs, trouble>>

BatchTexts == SubSeq(job.chunks, batch * BatchSize + 1,
                     Lesser((batch + 1) * BatchSize, Len(job.chunks)))
LastBatch == (batch + 1) * BatchSize >= Len(job.chunks)

\* The except clause of embed_texts: it catches whatever was raised in the
\* attempt, also by the report of progress, and the batch is tried again.
TryAgain ==
  /\ call' = NoCall
  /\ IF attempt + 1 < Retries
     THEN attempt' = attempt + 1 /\ job' = [job EXCEPT !.at = "embed"]
     ELSE attempt' = 0 /\ EndFailed

\* _embed_batch_provider
BeginBatch ==
  /\ At("embed")
  /\ call' = [NoCall EXCEPT !.model = Resolved] /\ Remember
  /\ job' = [job EXCEPT !.at = "request"]
  /\ UNCHANGED <<world, batch, attempt, vectors, index, prompt, slipped, jobs, trouble>>

TextsOf(request) == SubSeq(BatchTexts, request.from + 1, request.to)

\* pack_embed_texts_for_request: a new request where the limit would be passed.
\* Without a limit, and with Ollama, there is a single request.
Packed(from) ==
  LET upTo == {n \in (from + 1)..Len(BatchTexts) :
                 \/ provider = "ollama" \/ RequestMax = 0 \/ n = from + 1
                 \/ Sizes(TextsOf([from |-> from, to |-> n])) <= RequestMax}
  IN  [from |-> from, to |-> CHOOSE n \in upTo : \A m \in upTo : m <= n]

Current == IF call.left = <<>> THEN Packed(Len(call.got)) ELSE Head(call.left)
Others == IF call.left = <<>> THEN <<>> ELSE Tail(call.left)
Single == Current.to = Current.from + 1
TooLarge == ~Single /\ Sizes(TextsOf(Current)) > ServerMax

Middle(request) == request.from + (request.to - request.from) \div 2

\* Faulty: the halves of a request that was split come back the wrong way round.
HalvesSwapped(request) ==
  <<[request EXCEPT !.from = Middle(request)], [request EXCEPT !.to = Middle(request)]>>

Halves(request) ==
  <<[request EXCEPT !.to = Middle(request)], [request EXCEPT !.from = Middle(request)]>>

Asking == At("request") /\ Len(call.got) < Len(BatchTexts)

\* _embed_openai_post asks for the model each time.
RequestDone ==
  /\ Asking /\ ~TooLarge
  /\ LET by == IF provider = "ollama" THEN call.model ELSE setting
         texts == TextsOf(Current)
     IN  call' = [call EXCEPT !.left = Others,
                              !.got = @ \o [i \in DOMAIN texts |-> [of |-> texts[i], by |-> by]]]
  /\ UNCHANGED <<world, cached, job, batch, attempt, vectors, index, prompt, slipped, jobs, trouble>>

\* _embed_batch_adaptive, _embed_openai_request_adaptive: a request that the
\* server finds too large is split, with Ollama one that fails for any reason; a
\* single text is shortened until it fits.
RequestSplit ==
  /\ Asking /\ ~Single
  /\ \/ TooLarge /\ UNCHANGED trouble
     \/ provider = "ollama" /\ trouble < MaxTrouble /\ trouble' = trouble + 1
  /\ call' = [call EXCEPT !.left = Halves(Current) \o Others]
  /\ UNCHANGED <<world, cached, job, batch, attempt, vectors, index, prompt, slipped, jobs>>

\* The model is not found, or a call fails that is not split.
EmbedFails ==
  /\ At("embed") \/ (Asking /\ (provider = "openai" \/ Single))
  /\ trouble < MaxTrouble /\ trouble' = trouble + 1
  /\ TryAgain
  /\ UNCHANGED <<world, cached, batch, vectors, index, prompt, slipped, jobs>>

\* The batch is embedded; the report that follows finds the job cancelled, or the
\* database locked, or is recorded.
EmbedSucceeds ==
  /\ At("request") /\ ~Asking
  /\ vectors' = vectors \o call.got
  /\ \/ /\ Going
        /\ attempt' = 0 /\ batch' = batch + 1 /\ call' = NoCall
        /\ job' = [job EXCEPT !.at = IF LastBatch THEN "index" ELSE "embed"]
        /\ UNCHANGED <<slipped, trouble>>
     \/ /\ Going /\ trouble < MaxTrouble /\ trouble' = trouble + 1
        /\ TryAgain /\ slipped' = TRUE /\ UNCHANGED batch
     \/ ~Going /\ TryAgain /\ slipped' = TRUE /\ UNCHANGED <<batch, trouble>>
  /\ UNCHANGED <<world, cached, index, prompt, jobs>>

\* The collection is named after the path, time and size of the file.
Key == Len(file)
Slice(s, k) == SubSeq(s, (k - 1) * AddBatch + 1, Lesser(k * AddBatch, Len(s)))
Slices == 1..((Len(job.chunks) + AddBatch - 1) \div AddBatch)
Fits(k) ==
  /\ Len(Slice(job.chunks, k)) = Len(Slice(vectors, k))
  /\ \A i \in DOMAIN Slice(vectors, k) : Slice(vectors, k)[i].by = vectors[1].by
Entries == [i \in DOMAIN job.chunks |-> [text |-> job.chunks[i], vector |-> vectors[i]]]

\* ingest_chunks: a new collection, filled slice by slice; a slice with more
\* vectors than chunks is refused, or with vectors of another dimension.
Ingest(key) ==
  LET added == {k \in Slices : \A l \in 1..k : Fits(l)}
  IN  [index EXCEPT ![key] =
         SubSeq(Entries, 1, Lesser(Cardinality(added) * AddBatch, Len(Entries)))]

IndexChunks ==
  /\ At("index")
  /\ \/ ~Going /\ EndCancelled /\ UNCHANGED index
     \/ /\ Going /\ index' = Ingest(Key)
        /\ IF \A k \in Slices : Fits(k) THEN job' = [job EXCEPT !.at = "query"] ELSE EndFailed
  /\ UNCHANGED <<world, cached, batch, attempt, call, vectors, prompt, slipped, jobs, trouble>>

\* The collection is looked up under the name that the file has now; vectors of
\* another model have another dimension and are refused.
Query ==
  /\ At("query")
  /\ \/ ~Going /\ EndCancelled /\ UNCHANGED <<cached, prompt>>
     \/ /\ Going /\ Remember
        /\ IF index[Key] = NoneYet
             \/ \E i \in DOMAIN index[Key] : index[Key][i].vector.by # Resolved
           THEN EndFailed /\ UNCHANGED prompt
           ELSE \E S \in SUBSET DOMAIN index[Key] :
                  /\ Cardinality(S) = Lesser(TopK, Len(index[Key]))
                  /\ prompt' = FlattenSeq([n \in 1..Cardinality(S) |->
                       index[Key][NthOf(S, n)].text])
                  /\ job' = [job EXCEPT !.at = "ask"]
  /\ UNCHANGED <<world, batch, attempt, call, vectors, index, slipped, jobs, trouble>>

\* _direct: the last lines that fit, one at least.
AskModel ==
  /\ At("ask")
  /\ \/ ~Going /\ EndCancelled /\ UNCHANGED prompt
     \/ /\ Going /\ job' = [job EXCEPT !.at = "call"]
        /\ prompt' = LastOf(IF job.mode = "rag" THEN prompt ELSE job.lines, DirectMax)
  /\ UNCHANGED <<world, cached, batch, attempt, call, vectors, index, slipped, jobs, trouble>>

\* The answer of the model, the last report, the worker's own check, the result.
Finish ==
  /\ At("call")
  /\ job' = [job EXCEPT !.at = "idle", !.status = IF Going THEN "done" ELSE @]
  /\ UNCHANGED <<world, cached, batch, attempt, call, vectors, index, prompt, slipped, jobs, trouble>>

\* The file cannot be read, no embedding model is found, the database of vectors
\* fails, or the model does.
Break ==
  /\ job.at \in {"read", "index", "query", "call"}
  /\ trouble < MaxTrouble /\ trouble' = trouble + 1
  /\ EndFailed
  /\ UNCHANGED <<world, cached, batch, attempt, call, vectors, index, prompt, slipped, jobs>>

RetrievalInit ==
  /\ file = <<>> /\ provider \in {"ollama", "openai"} /\ setting \in Models /\ cached = NoneYet
  /\ job = NoJob /\ batch = 0 /\ attempt = 0 /\ call = NoCall /\ vectors = <<>>
  /\ index = [size \in 0..MaxFile |-> NoneYet] /\ prompt = <<>> /\ slipped = FALSE
  /\ jobs = 0 /\ trouble = 0

RetrievalNext ==
  \/ Grow \/ ChangeModel \/ Expire \/ CancelJob \/ StartJob \/ ReadFile
  \/ BeginBatch \/ RequestDone \/ RequestSplit \/ EmbedFails \/ EmbedSucceeds
  \/ IndexChunks \/ Query \/ AskModel \/ Finish \/ Break

RetrievalSpec == RetrievalInit /\ [][RetrievalNext]_retrievalVars
-----------------------------------------------------------------------------
Members(s) == {s[i] : i \in DOMAIN s}
Place(n) == CHOOSE i \in DOMAIN job.lines : job.lines[i] = n

RetrievalTypeOK ==
  /\ file \in Seq(BOOLEAN) /\ setting \in Models /\ cached \in Models \cup {NoneYet}
  /\ job.status \in {"none", "running", "done", "failed", "cancelled"}
  /\ job.at \in {"idle", "read", "embed", "request", "index", "query", "ask", "call"}
  /\ job.lines \in Seq(DOMAIN file) /\ job.chunks \in Seq(Seq(DOMAIN file))
  /\ attempt \in 0..(Retries - 1) /\ Len(prompt) <= TopK * ChunkSize + DirectMax
  /\ \A key \in DOMAIN index : index[key] = NoneYet \/ key <= Len(file)

\* The chunks that are embedded leave out nothing but what the caps cut off at
\* the front, and what is sent to the model are lines that this job read, none of
\* level INFO or DEBUG if the settings asked to skip those when it read them,
\* within the budget and in their order: a segment steps back by no more than the
\* overlap.
PromptOwn ==
  /\ job.at = "embed" =>
       \A i \in DOMAIN job.lines :
         (\E c \in Members(job.chunks) : job.lines[i] \in Members(c))
           \/ Len(job.lines) - i >= RagMax
           \/ \A c \in Members(job.chunks) : \A n \in Members(c) : n > job.lines[i]
  /\ job.at = "call" =>
       /\ Members(prompt) \subseteq {n \in Members(job.lines) : ~(job.skips /\ file[n])}
       /\ Len(prompt) <= DirectMax
       /\ \A i, j \in DOMAIN prompt : i < j => Place(prompt[i]) < Place(prompt[j]) + Lesser(Overlap, ChunkSize)

\* The collection that a job is about to query holds its chunks, each once and in
\* order, whatever an earlier job left there and however requests were packed,
\* split and repeated; each under the vector of its own text, or, when recording
\* the progress of a batch failed and its vectors are there twice, under that of
\* some chunk of this job.
VectorsMatch ==
  job.at = "query" /\ index[Key] # NoneYet =>
    /\ [i \in DOMAIN index[Key] |-> index[Key][i].text] = job.chunks
    /\ \A i \in DOMAIN index[Key] :
         IF slipped THEN index[Key][i].vector.of \in Members(job.chunks)
                    ELSE index[Key][i].vector.of = index[Key][i].text

\* The prompt is made of the job's own lines, and the vectors are those of its
\* chunks.
RetrievalSound == PromptOwn /\ VectorsMatch
=============================================================================
