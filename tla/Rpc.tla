--------------------------------- MODULE Rpc ---------------------------------
(* JSON-RPC requests, the tools they may call and the shape of the answers   *)
(* (src/protocol.rs, src/tools.rs, src/errors.rs and the dispatch of         *)
(* src/server.rs).  The three tables that must agree are kept apart as they  *)
(* are in the repository: the definitions of tools.json, ALL_TOOLS with its  *)
(* categories, and the arms of the match in handle_tools_call.               *)
EXTENDS Naturals, FiniteSets

Category == {"Search", "Scrape", "Fetch", "Crawl"}

(* The names tools.json defines.                                             *)
Defined == {"web_search", "web_scrape", "web_map", "web_extract", "web_fetch",
            "web_fetch_text", "web_fetch_headers", "web_search_scrape",
            "web_sitemap", "web_check_links", "browser_scrape", "browser_screenshot"}

(* ALL_TOOLS: the category of every tool.                                    *)
ToolsOf == [Search |-> {"web_search", "web_search_scrape"},
            Scrape |-> {"web_scrape", "web_extract", "browser_scrape", "browser_screenshot"},
            Fetch  |-> {"web_fetch", "web_fetch_text", "web_fetch_headers"},
            Crawl  |-> {"web_map", "web_sitemap", "web_check_links"}]

(* The arms of the match on tool_name.                                       *)
Dispatched == {"web_search", "web_scrape", "web_map", "web_extract", "web_fetch",
               "web_fetch_text", "web_fetch_headers", "web_search_scrape",
               "web_sitemap", "web_check_links", "browser_scrape", "browser_screenshot"}

Available(tool, enabled) == \E c \in enabled : tool \in ToolsOf[c]

(* build_tools_list: the payload of tools/list.                              *)
Listed(enabled) == {t \in Defined : Available(t, enabled)}

(* Args::enabled_categories: --enable-all wins over the single flags.        *)
EnabledBy(all, flags) == IF all THEN Category ELSE flags

-----------------------------------------------------------------------------
NoId == 0           \* `"id": null` and an absent id are the same to serde
NoName == "-"       \* tools/call without a name that is a string

(* A message is what one line of input or one body holds: no request at all  *)
(* (blank or not parseable) or a request.                                    *)
Garbage == [form |-> "garbage"]
Request(id, method, tool) == [form |-> "request", id |-> id, method |-> method, tool |-> tool]

IsMessage(m) ==
    m = Garbage \/ m \in [form : {"request"}, id : Nat, method : STRING, tool : STRING]

IsNotification(m) == m.form = "request" /\ m.id = NoId

(* JsonRpcResponse, by what tells answers apart: a result, a result with     *)
(* isError: true, or a protocol error with its code.                         *)
Success(id) == [id |-> id, kind |-> "result", code |-> 0]
ToolError(id) == [id |-> id, kind |-> "isError", code |-> 0]
Error(id, code) == [id |-> id, kind |-> "error", code |-> code]

ParseErrorCode == 32700
MethodNotFoundCode == 32601
InvalidParamsCode == 32602

Answer == [id : Nat, kind : {"result", "isError", "error"}, code : Nat]

(* parse_error: the id could not be read.                                    *)
ParseError == Error(NoId, ParseErrorCode)

(* write_oversize_error.                                                     *)
OversizeError == Error(NoId, InvalidParamsCode)

(* timeout_response: only a tool can be suspended when the deadline passes.  *)
TimeoutResponse(m) == ToolError(m.id)

(* Methods process_request answers without any await.                        *)
Plain == {"initialize", "tools/list", "logging/setLevel", "ping", "notifications/x"}

RunsAnyTool(m, enabled) ==          \* faulty: tools/list hides it, tools/call runs it
    m.method = "tools/call" /\ m.tool \in Dispatched

(* process_request up to the call of a tool: handle_tools_call refuses a     *)
(* call without a name or of a tool that is not available.                   *)
RunsTool(m, enabled) ==
    m.method = "tools/call" /\ m.tool # NoName /\ Available(m.tool, enabled)

Immediate(m, enabled) ==
    IF m.method \in Plain THEN Success(m.id)
    ELSE IF m.method = "tools/call" /\ m.tool = NoName THEN Error(m.id, InvalidParamsCode)
    ELSE Error(m.id, MethodNotFoundCode)

(* What the match makes of a tool's result; its last arm is an Err that, as  *)
(* every Err of a tool, becomes an isError result.                           *)
ToolReply(m, succeeds) ==
    IF succeeds /\ m.tool \in Dispatched THEN Success(m.id) ELSE ToolError(m.id)
=============================================================================
