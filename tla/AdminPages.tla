----------------------------- MODULE AdminPages -----------------------------
(***************************************************************************)
(* The pages of the admin interface, the customer portal and the demo      *)
(* storefront that load what they show, show it, and save changes to it.   *)
(* Each is one React component with the same skeleton (an effect that      *)
(* asks, a loading flag, a chain of conditions that picks a panel,         *)
(* handlers that send a change and bring the screen up to date) and with   *)
(* differences that decide what a user gets to see when answers are late,  *)
(* lost or overtaken.  A page is described by three records, Load_x,       *)
(* View_x and, for each handler, Save_x; the actions interpret them.       *)
(* One page is open in a behaviour.                                        *)
(***************************************************************************)
EXTENDS Integers, Sequences, FiniteSets

CONSTANTS
    Keys,           \* what can be selected: customers, products, filters
    First,          \* what is selected first
    NoKey,          \* nothing is selected yet
    MaxOnWay,       \* bound: loads and saves on their way at a time
    MaxChanges,     \* bound: changes the user saves
    MaxKeyed,       \* bound: the same on a page with a selection
    MaxMisses       \* polls of a job that may fail in a row (5 in the code)

ASSUME PagesAssumption ==
    /\ First \in Keys /\ IsFiniteSet(Keys) /\ NoKey \notin Keys
    /\ MaxOnWay \in Nat \ {0} /\ MaxChanges \in Nat /\ MaxKeyed \in 0..MaxChanges
    /\ MaxMisses \in Nat \ {0}

(***************************************************************************)
(* How a page loads.                                                       *)
(*   keyed   the effect depends on a selection that can change while the   *)
(*           page stays                                                    *)
(*   unset   nothing is selected when the page opens                       *)
(*   drops   the effect's cleanup makes answers to its questions void      *)
(*   waits   the question is debounced                                     *)
(*   clears  what is shown is cleared when a question is sent              *)
(*   spins   the loading flag is set "never", "first" (by useState only),  *)
(*           "late" (whenever a question is sent), or both by useState and *)
(*           "asking" (whenever a question is sent) or "selecting"         *)
(*   fails   what a failure does beside ending the loading: it sets an     *)
(*           error ("panel"), clears what is shown ("empties"), or nothing *)
(*   heals   the error is reset when a question is sent                    *)
(*   again   the question can be repeated "never", when "idle", at any     *)
(*           time ("free", which stands for polling, too)                  *)
(*   more    there is a button that appends further rows                   *)
(***************************************************************************)
Load == [keyed |-> FALSE, unset |-> FALSE, drops |-> FALSE, waits |-> FALSE, clears |-> FALSE,
         spins |-> "first", fails |-> {}, heals |-> FALSE,
         again |-> "never", more |-> FALSE]

(***************************************************************************)
(* How a handler saves.                                                    *)
(*   busy    its button is disabled while a save of it is on its way       *)
(*   aims    at the row that is shown ("item") or at the selection ("key") *)
(*   whole   the body is all that is shown, not only the change            *)
(*   ahead   the change is on the screen before it is saved                *)
(*   shows   what it changes is part of what the page shows                *)
(*   after   when it is acknowledged: "reload", "patch" what is shown,     *)
(*           "leave" the page, reload "later", "nothing"                   *)
(*   undo    when it fails, what was shown at the click is put back        *)
(*   starts  it starts an import job that the page then watches            *)
(***************************************************************************)
Save == [busy |-> TRUE, aims |-> "item", whole |-> FALSE, ahead |-> FALSE,
         shows |-> TRUE, after |-> "nothing", undo |-> FALSE, starts |-> FALSE]

\* A panel is on the screen under some conditions and offers some handlers.
Panel(conditions, offers) == [when |-> conditions, offers |-> offers]

\* How a page watches a job: the statuses at which it stops, those with which
\* the backend ends such a job, and whether it gives up after failing polls.
NoWatch == [ends |-> {}, results |-> {}, gives |-> FALSE]

-----------------------------------------------------------------------------
(***************************************************************************)
(* Lists of the administration.                                            *)
(***************************************************************************)
Load_push_log == [Load EXCEPT !.spins = "asking", !.again = "idle"]
View_push_log == [spinner |-> Panel({"loading"}, {}),
                  nothing |-> Panel({"loaded", "none"}, {}),
                  content |-> Panel({"loaded", "some"}, {})]

Load_audit_log == [Load EXCEPT !.spins = "asking", !.again = "idle"]
View_audit_log == [spinner |-> Panel({"loading"}, {}),
                   nothing |-> Panel({"loaded", "none"}, {}),
                   content |-> Panel({"loaded", "some"}, {})]

\* The jobs: asked for again every ten seconds, whether or not an answer came.
Load_sync == [Load EXCEPT !.keyed = TRUE, !.drops = TRUE, !.spins = "asking",
                          !.fails = {"panel"}, !.heals = TRUE, !.again = "free"]
\* Mutant: the empty panel does not look at the error.
M_View_syncOverError == [spinner |-> Panel({"loading"}, {}),
                         failure |-> Panel({"failed"}, {}),
                         nothing |-> Panel({"loaded", "none"}, {}),
                         content |-> Panel({"loaded", "some"}, {})]
View_sync == [spinner |-> Panel({"loading"}, {}),
              failure |-> Panel({"failed"}, {}),
              nothing |-> Panel({"loaded", "none", "fine"}, {}),
              content |-> Panel({"loaded", "some"}, {})]

\* The strip of suppliers above them, absent when nothing is known.
Load_sync_health == [Load EXCEPT !.drops = TRUE, !.spins = "never", !.again = "free"]
View_sync_health == [content |-> Panel({"some"}, {"trigger"})]
\* The button is disabled while a request is on its way, an open menu is not.
Save_trigger     == [Save EXCEPT !.busy = FALSE, !.shows = FALSE]

Load_suppliers == [Load EXCEPT !.spins = "asking"]
View_suppliers == [spinner |-> Panel({"loading"}, {}),
                   nothing |-> Panel({"loaded", "none"}, {}),
                   content |-> Panel({"loaded", "some"}, {})]

Load_customers == Load
View_customers == [spinner |-> Panel({"loading"}, {}),
                   nothing |-> Panel({"loaded", "none"}, {}),
                   content |-> Panel({"loaded", "some"}, {})]

Load_mappings == [Load EXCEPT !.fails = {"panel"}]
View_mappings == [spinner |-> Panel({"loading"}, {}),
                  failure |-> Panel({"failed"}, {}),
                  nothing |-> Panel({"loaded", "none", "fine"}, {}),
                  content |-> Panel({"some"}, {})]

Load_webhooks   == [Load EXCEPT !.spins = "asking"]
\* A card is busy for itself: two cards are two saves of one handler.
View_endpoint   == {"toggle_webhook", "delete_webhook", "test_webhook"}
View_webhooks   == [head    |-> Panel({}, {"create_webhook"}),
                    spinner |-> Panel({"loading"}, {}),
                    nothing |-> Panel({"loaded", "none"}, {"create_webhook"}),
                    content |-> Panel({"loaded", "some"}, View_endpoint)]
\* Mutant: the list is not loaded again.
M_Save_create_webhookSilent == [Save EXCEPT !.aims = "key"]
Save_create_webhook == [Save EXCEPT !.aims = "key", !.after = "reload"]
Save_toggle_webhook == [Save EXCEPT !.busy = FALSE, !.after = "reload"]
Save_delete_webhook == [Save EXCEPT !.busy = FALSE, !.after = "reload"]
Save_test_webhook   == [Save EXCEPT !.busy = FALSE, !.shows = FALSE]

Load_integrations == [Load EXCEPT !.spins = "asking"]
View_integrations == [head    |-> Panel({}, {"create_key"}),
                      spinner |-> Panel({"loading"}, {}),
                      nothing |-> Panel({"loaded", "none"}, {"create_key"}),
                      content |-> Panel({"loaded", "some"}, {"revoke_key"})]
Save_create_key   == [Save EXCEPT !.aims = "key", !.after = "reload"]
\* "revoking" holds one key at a time: the others' buttons stay enabled.
Save_revoke_key   == [Save EXCEPT !.busy = FALSE, !.after = "reload"]

Load_archived == Load
View_archived == [spinner |-> Panel({"loading"}, {}),
                  nothing |-> Panel({"loaded", "none"}, {}),
                  content |-> Panel({"loaded", "some"}, {"restore"})]
Save_restore  == [Save EXCEPT !.busy = FALSE, !.after = "patch"]

Load_notifications == [Load EXCEPT !.keyed = TRUE, !.spins = "asking"]
View_notifications == [head    |-> Panel({}, {"demo_alerts"}),
                       spinner |-> Panel({"loading"}, {}),
                       nothing |-> Panel({"loaded", "none"}, {}),
                       content |-> Panel({"loaded", "some"},
                                         {"dismiss", "dismiss_all", "dismiss_unread"})]
Save_dismiss       == [Save EXCEPT !.busy = FALSE, !.after = "patch"]
\* All of them: reloads when dismissed ones are shown, else clears the list.
Save_dismiss_all    == [Save EXCEPT !.busy = FALSE, !.after = "reload"]
Save_dismiss_unread == [Save EXCEPT !.busy = FALSE, !.after = "patch"]
Save_demo_alerts   == [Save EXCEPT !.busy = FALSE, !.aims = "key", !.after = "reload"]

Load_users  == Load
View_users  == [spinner |-> Panel({"loading"}, {}),
                content |-> Panel({"loaded"}, {"remove_user"})]
Save_remove_user == [Save EXCEPT !.busy = FALSE, !.after = "patch"]

\* Reports.  The dashboard and the health page show zeros for what they lack.
Load_dashboard  == Load
View_dashboard  == [spinner |-> Panel({"loading"}, {}),
                    nothing |-> Panel({"loaded", "none"}, {}),
                    content |-> Panel({"loaded", "some"}, {})]
Load_analytics  == [Load EXCEPT !.again = "free"]
View_analytics  == [spinner |-> Panel({"loading"}, {}),
                    content |-> Panel({"loaded", "set"}, {})]
Load_monitoring == [Load EXCEPT !.spins = "asking", !.again = "idle", !.fails = {"empties"}]
View_monitoring == [spinner |-> Panel({"loading"}, {}),
                    content |-> Panel({"loaded"}, {})]

-----------------------------------------------------------------------------
(***************************************************************************)
(* The catalog of products.                                                *)
(***************************************************************************)
Load_products == [Load EXCEPT !.keyed = TRUE, !.waits = TRUE, !.spins = "selecting",
                              !.more = TRUE]
View_products == [spinner |-> Panel({"loading", "none"}, {}),
                  nothing |-> Panel({"loaded", "none"}, {}),
                  content |-> Panel({"some"}, {"archive", "bulk_sync"})]
Save_archive   == [Save EXCEPT !.busy = FALSE, !.after = "patch"]
Save_bulk_sync == [Save EXCEPT !.shows = FALSE]

Load_print == [Load EXCEPT !.keyed = TRUE, !.waits = TRUE, !.spins = "asking",
                           !.fails = {"empties"}]
View_print == [spinner |-> Panel({"loading"}, {}),
               nothing |-> Panel({"loaded", "none"}, {}),
               content |-> Panel({"loaded", "some"}, {})]

Load_product == [Load EXCEPT !.again = "free"]
View_product == [spinner |-> Panel({"loading"}, {}),
                 nothing |-> Panel({"loaded", "unset"}, {}),
                 content |-> Panel({"loaded", "set"},
                                   {"add_to_customer", "sync_now", "ops_filename"})]
Save_add_to_customer == [Save EXCEPT !.shows = FALSE]
Save_sync_now        == [Save EXCEPT !.shows = FALSE, !.after = "later"]
Save_ops_filename    == [Save EXCEPT !.after = "reload"]

\* The storefront whose branding the product page shows.
Load_product_customer == [Load EXCEPT !.keyed = TRUE, !.unset = TRUE, !.spins = "never"]
View_product_customer == [content |-> Panel({"set"}, {})]

Load_branding == [Load EXCEPT !.keyed = TRUE, !.spins = "asking"]
View_branding == [spinner |-> Panel({"loading"}, {}),
                  content |-> Panel({"loaded"}, {"branding", "no_branding"})]
Save_branding    == [Save EXCEPT !.aims = "key", !.whole = TRUE, !.ahead = TRUE]
Save_no_branding == [Save EXCEPT !.busy = FALSE, !.aims = "key", !.after = "patch"]

Load_push_history == [Load EXCEPT !.fails = {"panel"}]
View_push_history == [spinner |-> Panel({"loading"}, {}),
                      failure |-> Panel({"loaded", "failed"}, {}),
                      nothing |-> Panel({"loaded", "fine", "none"}, {}),
                      content |-> Panel({"loaded", "fine", "some"}, {})]

Load_preview == [Load EXCEPT !.keyed = TRUE]
View_preview == [spinner |-> Panel({"loading"}, {}),
                 nothing |-> Panel({"loaded", "unset"}, {}),
                 content |-> Panel({"loaded", "set"}, {"go_push"})]
Save_go_push == [Save EXCEPT !.shows = FALSE, !.after = "leave"]

Load_options == Load
View_options == [spinner |-> Panel({"loading"}, {}),
                 nothing |-> Panel({"loaded", "none"}, {}),
                 content |-> Panel({"loaded", "some"}, {"option_card", "option_delete"})]
Save_option_card   == [Save EXCEPT !.busy = FALSE, !.ahead = TRUE]
Save_option_delete == [Save EXCEPT !.busy = FALSE, !.after = "reload"]

Load_configure == [Load EXCEPT !.spins = "asking"]
View_configure == [head    |-> Panel({}, {"sync_options"}),
                   spinner |-> Panel({"loading"}, {}),
                   nothing |-> Panel({"loaded", "none"}, {}),
                   content |-> Panel({"loaded", "some"}, {})]
Save_sync_options == [Save EXCEPT !.aims = "key", !.shows = FALSE, !.after = "later"]

\* Product setup: the products of a storefront, and the options of the one
\* selected, which stay on the screen until those of the next one arrive.
Load_setup_products == [Load EXCEPT !.keyed = TRUE, !.unset = TRUE, !.clears = TRUE,
                                    !.spins = "late"]
View_setup_products == [spinner |-> Panel({"loading"}, {}),
                        content |-> Panel({"loaded"}, {})]
Load_setup == [Load EXCEPT !.keyed = TRUE, !.unset = TRUE, !.spins = "never",
                           !.again = "free"]
View_setup == [head    |-> Panel({}, {"save_all"}),
               nothing |-> Panel({"chosen", "none"}, {}),
               content |-> Panel({"chosen", "some"}, {"setup_card", "setup_delete"})]
Save_save_all     == [Save EXCEPT !.aims = "key", !.whole = TRUE, !.ahead = TRUE,
                                  !.after = "reload"]
Save_setup_card   == [Save EXCEPT !.busy = FALSE, !.ahead = TRUE]
Save_setup_delete == [Save EXCEPT !.busy = FALSE, !.after = "reload"]

-----------------------------------------------------------------------------
(***************************************************************************)
(* Storefronts, suppliers and their settings.                              *)
(***************************************************************************)
Load_customer == Load
View_customer == [spinner |-> Panel({"loading"}, {}),
                  nothing |-> Panel({"loaded", "unset"}, {}),
                  content |-> Panel({"loaded", "set"},
                                    {"customer", "secret", "delete_customer", "pull_options"})]
\* The whole customer goes back, as it was loaded and edited.
\* Mutant: the button stays enabled while the customer is being saved.
M_Save_customerAgain == [Save EXCEPT !.busy = FALSE, !.aims = "key", !.whole = TRUE,
                                     !.ahead = TRUE]
Save_customer        == [Save EXCEPT !.aims = "key", !.whole = TRUE, !.ahead = TRUE]
Save_secret          == [Save EXCEPT !.aims = "key", !.shows = FALSE]
Save_delete_customer == [Save EXCEPT !.aims = "key", !.shows = FALSE, !.after = "leave"]
Save_pull_options    == [Save EXCEPT !.aims = "key", !.shows = FALSE]

Load_catalog == [Load EXCEPT !.keyed = TRUE, !.spins = "asking"]
View_catalog == [spinner |-> Panel({"loading"}, {}),
                 nothing |-> Panel({"loaded", "none"}, {}),
                 content |-> Panel({"loaded", "some"}, {"push_item", "remove_item"})]
Save_push_item   == [Save EXCEPT !.busy = FALSE, !.after = "patch"]
Save_remove_item == [Save EXCEPT !.busy = FALSE, !.after = "patch"]

\* The storefront comes from a list; "No pricing rules yet" does not wait for it.
Load_markup == [Load EXCEPT !.keyed = TRUE, !.unset = TRUE, !.clears = TRUE, !.spins = "late",
                            !.fails = {"panel"}]
View_markup == [head    |-> Panel({}, {"rule"}),
                failure |-> Panel({"failed"}, {}),
                spinner |-> Panel({"loading"}, {}),
                nothing |-> Panel({"loaded", "fine", "none"}, {}),
                content |-> Panel({"loaded", "some"}, {"toggle_rule", "delete_rule"})]
Save_toggle_rule == [Save EXCEPT !.busy = FALSE, !.after = "reload"]
Save_delete_rule == [Save EXCEPT !.busy = FALSE, !.after = "reload"]
Save_rule        == [Save EXCEPT !.aims = "key", !.after = "reload"]

\* The form of the storefront's connection is there before its answer is.
Load_connection == [Load EXCEPT !.spins = "never"]
View_connection == [content |-> Panel({}, {"connection"})]
Save_connection == [Save EXCEPT !.aims = "key", !.whole = TRUE, !.ahead = TRUE]

\* "enabled" is null, then true or false; a failure makes it false.
Load_signup == [Load EXCEPT !.fails = {"empties"}]
View_signup == [spinner |-> Panel({"loading"}, {}),
                nothing |-> Panel({"loaded", "none"}, {"signup"}),
                content |-> Panel({"loaded", "some"}, {"signup"})]
Save_signup == [Save EXCEPT !.aims = "key", !.after = "patch"]

Load_supplier == Load
View_supplier == [spinner |-> Panel({"loading"}, {}),
                  nothing |-> Panel({"loaded", "unset"}, {}),
                  content |-> Panel({"loaded", "set"},
                                    {"active", "supplier", "credentials", "delete_supplier"})]
Save_active      == [Save EXCEPT !.busy = FALSE, !.aims = "key", !.ahead = TRUE, !.undo = TRUE]
Save_supplier    == [Save EXCEPT !.aims = "key", !.ahead = TRUE]
Save_credentials == [Save EXCEPT !.aims = "key", !.after = "reload"]
Save_delete_supplier == [Save EXCEPT !.busy = FALSE, !.aims = "key", !.shows = FALSE,
                                     !.after = "leave"]

\* The import page of a supplier, and the watch over the job it starts.
Load_imports == [Load EXCEPT !.fails = {"panel"}]
View_imports == [spinner |-> Panel({"loading"}, {}),
                 failure |-> Panel({"loaded", "failed", "none"}, {}),
                 content |-> Panel({"loaded", "some"}, {"import"})]
Save_import   == [Save EXCEPT !.aims = "key", !.shows = FALSE, !.starts = TRUE]
Watch_imports == [ends |-> {"completed", "failed"}, results |-> {"completed", "failed"},
                  gives |-> FALSE]

\* The field mapping of a supplier: one page, two panels by protocol.
Load_mapping == [Load EXCEPT !.spins = "never"]
View_sanmar  == [spinner |-> Panel({"unset"}, {}),
                 content |-> Panel({"set"}, {"sanmar_fields", "sanmar_import"})]
\* Every change of a field sends all fields, and nothing waits for it.
Save_sanmar_fields == [Save EXCEPT !.busy = FALSE, !.aims = "key", !.whole = TRUE, !.ahead = TRUE]
Save_sanmar_import == [Save EXCEPT !.aims = "key", !.shows = FALSE, !.starts = TRUE]
\* Mutant: a failed import is not an end.
M_Watch_sanmarToSuccess == [ends |-> {"completed"}, results |-> {"completed", "failed"},
                            gives |-> TRUE]
Watch_sanmar       == [ends |-> {"completed", "failed"}, results |-> {"completed", "failed"},
                       gives |-> TRUE]

View_fourover == [spinner |-> Panel({"unset"}, {}),
                  content |-> Panel({"set"}, {"fourover_fields", "fourover_import"})]
Save_fourover_fields == [Save EXCEPT !.aims = "key", !.whole = TRUE, !.ahead = TRUE]
Save_fourover_import == [Save EXCEPT !.aims = "key", !.shows = FALSE, !.starts = TRUE]
\* An import of /api/suppliers/{id}/import ends as the import jobs do.
Watch_fourover       == [ends |-> {"completed", "failed"},
                         results |-> {"success", "partial_success", "failed"},
                         gives |-> TRUE]

-----------------------------------------------------------------------------
(***************************************************************************)
(* The customer portal and the demo storefront.                            *)
(***************************************************************************)
Load_portal_dashboard == [Load EXCEPT !.again = "free"]
View_portal_dashboard == [spinner |-> Panel({"loading"}, {}),
                          nothing |-> Panel({"loaded", "none"}, {}),
                          content |-> Panel({"loaded", "some"}, {})]

Load_portal_account == Load
View_portal_account == [spinner |-> Panel({"loading"}, {}),
                        content |-> Panel({"loaded"}, {"portal_secret"})]
Save_portal_secret  == [Save EXCEPT !.aims = "key", !.after = "reload"]

Load_portal_catalog == [Load EXCEPT !.keyed = TRUE, !.spins = "asking"]
View_portal_catalog == [spinner |-> Panel({"loading"}, {}),
                        nothing |-> Panel({"loaded", "none"}, {}),
                        content |-> Panel({"loaded", "some"}, {})]

Load_portal_history == [Load EXCEPT !.keyed = TRUE, !.spins = "asking"]
View_portal_history == [spinner |-> Panel({"loading"}, {}),
                        nothing |-> Panel({"loaded", "none"}, {}),
                        content |-> Panel({"loaded", "some"}, {})]

Load_portal_pricing == Load
View_portal_pricing == [spinner |-> Panel({"loading"}, {}),
                        nothing |-> Panel({"loaded", "none"}, {}),
                        content |-> Panel({"loaded", "some"}, {})]

Load_shop == Load
View_shop == [spinner |-> Panel({"loading"}, {}),
              nothing |-> Panel({"loaded", "none"}, {}),
              content |-> Panel({"loaded", "some"}, {})]

Load_shop_product == [Load EXCEPT !.fails = {"panel"}]
View_shop_product == [spinner |-> Panel({"loading"}, {}),
                      failure |-> Panel({"loaded", "failed"}, {}),
                      content |-> Panel({"loaded", "set"}, {})]

Load_decoration == [Load EXCEPT !.keyed = TRUE, !.spins = "asking"]
View_decoration == [spinner |-> Panel({"loading"}, {}),
                    content |-> Panel({"loaded"}, {"decoration"})]
Save_decoration == [Save EXCEPT !.aims = "key", !.whole = TRUE, !.ahead = TRUE]

\* The live price: a request id makes the answers to earlier inputs void.
\* Mutant: without the request id.
M_Load_quoteUnguarded == [Load EXCEPT !.keyed = TRUE, !.unset = TRUE, !.waits = TRUE,
                                      !.spins = "late", !.fails = {"panel", "empties"},
                                      !.heals = TRUE]
Load_quote == [Load EXCEPT !.keyed = TRUE, !.unset = TRUE, !.drops = TRUE, !.waits = TRUE,
                           !.spins = "late", !.fails = {"panel", "empties"}, !.heals = TRUE]
View_quote == [failure |-> Panel({"chosen", "failed"}, {}),
               spinner |-> Panel({"chosen", "fine", "loading"}, {}),
               waiting |-> Panel({"chosen", "fine", "unset"}, {}),
               content |-> Panel({"chosen", "fine", "loaded", "set"}, {})]

-----------------------------------------------------------------------------
(***************************************************************************)
(* The pages and the handlers, by name.                                    *)
(***************************************************************************)
Page(load, screen, watch) == [load |-> load, view |-> screen, watch |-> watch]

PageOf == [
    push_log         |-> Page(Load_push_log, View_push_log, NoWatch),
    audit_log        |-> Page(Load_audit_log, View_audit_log, NoWatch),
    sync             |-> Page(Load_sync, View_sync, NoWatch),
    sync_health      |-> Page(Load_sync_health, View_sync_health, NoWatch),
    suppliers        |-> Page(Load_suppliers, View_suppliers, NoWatch),
    customers        |-> Page(Load_customers, View_customers, NoWatch),
    mappings         |-> Page(Load_mappings, View_mappings, NoWatch),
    webhooks         |-> Page(Load_webhooks, View_webhooks, NoWatch),
    integrations     |-> Page(Load_integrations, View_integrations, NoWatch),
    archived         |-> Page(Load_archived, View_archived, NoWatch),
    notifications    |-> Page(Load_notifications, View_notifications, NoWatch),
    users            |-> Page(Load_users, View_users, NoWatch),
    dashboard        |-> Page(Load_dashboard, View_dashboard, NoWatch),
    analytics        |-> Page(Load_analytics, View_analytics, NoWatch),
    monitoring       |-> Page(Load_monitoring, View_monitoring, NoWatch),
    products         |-> Page(Load_products, View_products, NoWatch),
    print            |-> Page(Load_print, View_print, NoWatch),
    product          |-> Page(Load_product, View_product, NoWatch),
    product_customer |-> Page(Load_product_customer, View_product_customer, NoWatch),
    branding         |-> Page(Load_branding, View_branding, NoWatch),
    push_history     |-> Page(Load_push_history, View_push_history, NoWatch),
    preview          |-> Page(Load_preview, View_preview, NoWatch),
    options          |-> Page(Load_options, View_options, NoWatch),
    configure        |-> Page(Load_configure, View_configure, NoWatch),
    setup_products   |-> Page(Load_setup_products, View_setup_products, NoWatch),
    setup            |-> Page(Load_setup, View_setup, NoWatch),
    customer         |-> Page(Load_customer, View_customer, NoWatch),
    catalog          |-> Page(Load_catalog, View_catalog, NoWatch),
    markup           |-> Page(Load_markup, View_markup, NoWatch),
    connection       |-> Page(Load_connection, View_connection, NoWatch),
    signup           |-> Page(Load_signup, View_signup, NoWatch),
    supplier         |-> Page(Load_supplier, View_supplier, NoWatch),
    imports          |-> Page(Load_imports, View_imports, Watch_imports),
    sanmar           |-> Page(Load_mapping, View_sanmar, Watch_sanmar),
    fourover         |-> Page(Load_mapping, View_fourover, Watch_fourover),
    portal_dashboard |-> Page(Load_portal_dashboard, View_portal_dashboard, NoWatch),
    portal_account   |-> Page(Load_portal_account, View_portal_account, NoWatch),
    portal_catalog   |-> Page(Load_portal_catalog, View_portal_catalog, NoWatch),
    portal_history   |-> Page(Load_portal_history, View_portal_history, NoWatch),
    portal_pricing   |-> Page(Load_portal_pricing, View_portal_pricing, NoWatch),
    shop             |-> Page(Load_shop, View_shop, NoWatch),
    shop_product     |-> Page(Load_shop_product, View_shop_product, NoWatch),
    decoration       |-> Page(Load_decoration, View_decoration, NoWatch),
    quote            |-> Page(Load_quote, View_quote, NoWatch)]

SaveOf == [
    trigger |-> Save_trigger, create_webhook |-> Save_create_webhook,
    toggle_webhook |-> Save_toggle_webhook, delete_webhook |-> Save_delete_webhook,
    test_webhook |-> Save_test_webhook, create_key |-> Save_create_key,
    revoke_key |-> Save_revoke_key, restore |-> Save_restore,
    dismiss |-> Save_dismiss, dismiss_all |-> Save_dismiss_all,
    dismiss_unread |-> Save_dismiss_unread, demo_alerts |-> Save_demo_alerts,
    remove_user |-> Save_remove_user, archive |-> Save_archive,
    bulk_sync |-> Save_bulk_sync, add_to_customer |-> Save_add_to_customer,
    sync_now |-> Save_sync_now, ops_filename |-> Save_ops_filename,
    branding |-> Save_branding, no_branding |-> Save_no_branding,
    go_push |-> Save_go_push, option_card |-> Save_option_card,
    option_delete |-> Save_option_delete, sync_options |-> Save_sync_options,
    save_all |-> Save_save_all, setup_card |-> Save_setup_card,
    setup_delete |-> Save_setup_delete, customer |-> Save_customer,
    secret |-> Save_secret, delete_customer |-> Save_delete_customer,
    pull_options |-> Save_pull_options, push_item |-> Save_push_item,
    remove_item |-> Save_remove_item, toggle_rule |-> Save_toggle_rule,
    delete_rule |-> Save_delete_rule, rule |-> Save_rule,
    connection |-> Save_connection, signup |-> Save_signup,
    active |-> Save_active, supplier |-> Save_supplier,
    credentials |-> Save_credentials, delete_supplier |-> Save_delete_supplier,
    import |-> Save_import, sanmar_fields |-> Save_sanmar_fields,
    sanmar_import |-> Save_sanmar_import, fourover_fields |-> Save_fourover_fields,
    fourover_import |-> Save_fourover_import, portal_secret |-> Save_portal_secret,
    decoration |-> Save_decoration]

Pages == DOMAIN PageOf

-----------------------------------------------------------------------------
VARIABLES
    page,       \* the page that is open
    key,        \* what is selected on it, if anything
    shown,      \* what it shows: of which selection, and the changes in it
    loading,    \* the loading flag
    failed,     \* the error flag
    missed,     \* the last load to end had no answer
    due,        \* a load is due when a timer ends
    asks,       \* loads on their way, in the order in which they were sent
    saves,      \* saves on their way
    server,     \* what the backend has for each selection
    own,        \* the changes the user was told are saved
    count,      \* changes the user has sent
    job,        \* the import job: its status, as the page saw it, failing polls
    left        \* the user has been taken to another page

vars == <<page, key, shown, loading, failed, missed, due, asks, saves, server,
          own, count, job, left>>

L == PageOf[page].load
View == PageOf[page].view
Watch == PageOf[page].watch

Changes == 0..MaxChanges        \* 0 is what was there before
Blank == [of |-> {}, has |-> {}, old |-> FALSE]
Open  == [is |-> "open", has |-> {}]
Lost  == [is |-> "lost", has |-> {}]
Content(h) == [is |-> "content", has |-> h]
NoJob == [at |-> "none", seen |-> "none", misses |-> 0]

\* The conditions in the source that choose a panel.
Holds(c) == CASE c = "loading" -> loading
              [] c = "loaded"  -> ~loading
              [] c = "failed"  -> failed
              [] c = "fine"    -> ~failed
              [] c = "chosen"  -> key # NoKey
              [] c = "none"    -> shown.has = {}
              [] c = "some"    -> shown.has # {}
              [] c = "unset"   -> shown.of = {}
              [] c = "set"     -> shown.of # {}

Screen  == {p \in DOMAIN View : \A c \in View[p].when : Holds(c)}

\* Without a selection nothing can be asked and no button is enabled.
Usable  == ~left /\ key # NoKey
Offered == IF Usable THEN UNION {View[p].offers : p \in Screen} ELSE {}

Room(sent) == Len(sent) + Cardinality(saves) < MaxOnWay

Ask(k, more) == [key |-> k, more |-> more, late |-> FALSE, reply |-> Open]

\* A load for k is sent, and the flags are set as the page sets them.
Asks(k) ==
    /\ asks' = Append(asks, Ask(k, FALSE))
    /\ shown' = IF L.clears THEN Blank ELSE shown
    /\ loading' = (loading \/ L.spins \in {"asking", "selecting", "late"})
    /\ failed' = (failed /\ ~L.heals)

Answer == {Open, Lost} \cup {Content(h) : h \in SUBSET Changes}
Asked  == [key : Keys, more : BOOLEAN, late : BOOLEAN, reply : Answer]
Shown  == [of : SUBSET Keys, has : SUBSET Changes, old : BOOLEAN]
Saving == [what : DOMAIN SaveOf, change : Changes, to : Keys, at : Keys,
           body : SUBSET Changes, was : Shown, reply : {"open", "done", "lost"}]
Stages == {"none", "running"} \cup Watch.results \cup Watch.ends

TypeOK ==
    /\ page \in Pages /\ key \in Keys \cup {NoKey} /\ shown \in Shown
    /\ {loading, failed, missed, due, left} \subseteq BOOLEAN
    /\ asks \in Seq(Asked) /\ saves \subseteq Saving
    /\ IsFiniteSet(saves) /\ Len(asks) + Cardinality(saves) <= MaxOnWay
    /\ server \in [Keys -> SUBSET Changes] /\ own \in [Keys -> SUBSET Changes]
    /\ count \in Changes
    /\ job \in [at : Stages, seen : Stages, misses : 0..(MaxMisses - 1)]

Init ==
    /\ page \in Pages /\ key = IF L.unset THEN NoKey ELSE First
    /\ shown = Blank /\ failed = FALSE /\ missed = FALSE /\ left = FALSE
    /\ loading = (L.spins \in {"first", "asking", "selecting"})
    /\ due = (L.waits /\ ~L.unset)
    /\ asks = IF L.waits \/ L.unset THEN <<>> ELSE <<Ask(First, FALSE)>>
    /\ \E h \in SUBSET {0} : server = [k \in Keys |-> IF k = First THEN h ELSE {0}]
    /\ own = [k \in Keys |-> {}] /\ saves = {} /\ count = 0
    /\ job = NoJob

-----------------------------------------------------------------------------
\* The list from which the page takes its first selection does not come.
ListFails ==
    /\ ~left /\ key = NoKey /\ "panel" \in L.fails /\ ~failed
    /\ failed' = TRUE
    /\ UNCHANGED <<page, key, shown, loading, missed, due, asks, saves, server, own, count,
                   job, left>>

\* A customer, product or filter is selected.
Select(k) ==
    /\ ~left /\ L.keyed /\ k # key
    /\ key = NoKey => k = First /\ ~failed
    /\ key' = k
    /\ LET kept == IF L.drops THEN <<>> ELSE asks
       IN  IF L.waits
           THEN /\ asks' = kept /\ due' = TRUE
                /\ loading' = (loading \/ L.spins = "selecting")
                /\ UNCHANGED <<shown, failed>>
           ELSE /\ Room(kept)
                /\ asks' = Append(kept, Ask(k, FALSE))
                /\ shown' = IF L.clears THEN Blank ELSE shown
                /\ loading' = (loading \/ L.spins \in {"asking", "late"})
                /\ failed' = (failed /\ ~L.heals)
                /\ UNCHANGED due
    /\ UNCHANGED <<page, missed, saves, server, own, count, job, left>>

\* The timer of a debounced or postponed load ends.
Timer ==
    /\ Usable /\ due /\ Room(asks) /\ Asks(key) /\ due' = FALSE
    /\ UNCHANGED <<page, key, missed, saves, server, own, count, job, left>>

\* Refresh, or the next round of polling.
Again ==
    /\ Usable
    /\ L.again = "free" \/ (L.again = "idle" /\ ~loading)
    /\ Room(asks) /\ Asks(key)
    /\ UNCHANGED <<page, key, missed, due, saves, server, own, count, job, left>>

\* "Load More Products": offered while the list is not being loaded.
More ==
    /\ Usable /\ L.more /\ ~loading
    /\ \A i \in 1..Len(asks) : ~asks[i].more
    /\ Room(asks)
    /\ asks' = Append(asks, Ask(key, TRUE))
    /\ UNCHANGED <<page, key, shown, loading, failed, missed, due, saves, server, own,
                   count, job, left>>

\* The backend answers a load with what it has, or the load fails.
Reply(i, reply) ==
    /\ asks[i].reply = Open
    /\ asks' = [asks EXCEPT ![i].reply = reply]
    /\ UNCHANGED <<page, key, shown, loading, failed, missed, due, saves, server, own,
                   count, job, left>>

Serve == \E i \in 1..Len(asks) : Reply(i, Content(server[asks[i].key]))
Lose  == \E i \in 1..Len(asks) : Reply(i, Lost)

\* What an answer to ask a makes of the screen.
Showing(a) ==
    IF a.reply = Lost
    THEN IF "empties" \in L.fails THEN Blank ELSE shown
    ELSE [of  |-> {a.key} \cup IF a.more THEN shown.of ELSE {},
          has |-> a.reply.has \cup IF a.more THEN shown.has ELSE {},
          old |-> a.late \/ (a.more /\ shown.old)]

\* Mutant: the flag is reset by the answer only, not in finally.
M_ArriveSpinning ==
    \E i \in 1..Len(asks) :
        LET a == asks[i] IN
        /\ a.reply # Open
        /\ asks' = [j \in 1..(Len(asks) - 1) |->
                       IF j >= i THEN asks[j + 1] ELSE [asks[j] EXCEPT !.late = TRUE]]
        /\ shown' = Showing(a)
        /\ loading' = (loading /\ (a.more \/ a.reply = Lost))
        /\ failed' = (failed \/ (a.reply = Lost /\ "panel" \in L.fails))
        /\ missed' = IF a.late THEN missed ELSE a.reply = Lost
        /\ UNCHANGED <<page, key, due, saves, server, own, count, job, left>>

Arrive ==
    \E i \in 1..Len(asks) :
        LET a == asks[i] IN
        /\ a.reply # Open
        /\ asks' = [j \in 1..(Len(asks) - 1) |->
                       IF j >= i THEN asks[j + 1]
                       ELSE [asks[j] EXCEPT !.late = TRUE]]
        /\ shown' = Showing(a)
        /\ loading' = (loading /\ a.more)
        /\ failed' = (failed \/ (a.reply = Lost /\ "panel" \in L.fails))
        /\ missed' = IF a.late THEN missed ELSE a.reply = Lost
        /\ UNCHANGED <<page, key, due, saves, server, own, count, job, left>>

-----------------------------------------------------------------------------
\* The user edits something and presses the button of a handler.
Press(n) ==
    LET s == SaveOf[n] IN
    /\ n \in Offered
    /\ s.busy => \A w \in saves : w.what # n
    /\ s.starts => job.seen # "running"
    /\ Room(asks) /\ count < (IF L.keyed THEN MaxKeyed ELSE MaxChanges)
    /\ count' = count + 1
    /\ shown' = IF s.ahead THEN [shown EXCEPT !.has = @ \cup {count'}] ELSE shown
    /\ \E k \in IF s.aims = "item" /\ s.shows THEN shown.of ELSE {key} :
          saves' = saves \cup
              {[what |-> n, change |-> count', to |-> k, at |-> key,
                body |-> IF s.whole THEN shown'.has ELSE {}, was |-> IF s.undo THEN shown ELSE Blank,
                reply |-> "open"]}
    /\ UNCHANGED <<page, key, loading, failed, missed, due, asks, server, own, job, left>>

Applied(w) ==
    IF ~SaveOf[w.what].shows THEN server
    ELSE [server EXCEPT ![w.to] = IF SaveOf[w.what].whole THEN w.body
                                  ELSE @ \cup {w.change}]

Answers(w, reply) ==
    /\ w.reply = "open"
    /\ saves' = (saves \ {w}) \cup {[w EXCEPT !.reply = reply]}
    /\ UNCHANGED <<page, key, shown, loading, failed, missed, due, asks, own, count, left>>

\* The backend applies a save; it refuses one; it applies one and the answer is lost.
ServeSave ==
    \E w \in saves :
        /\ Answers(w, "done")
        /\ server' = Applied(w)
        /\ job' = IF SaveOf[w.what].starts THEN [job EXCEPT !.at = "running"] ELSE job

RefuseSave == \E w \in saves : Answers(w, "lost") /\ UNCHANGED <<server, job>>
LoseSave   == \E w \in saves : Answers(w, "lost") /\ server' = Applied(w) /\ UNCHANGED job

\* The handler goes on after its await.
Saved ==
    \E w \in saves :
        LET s == SaveOf[w.what] IN
        /\ w.reply = "done" /\ ~left
        /\ saves' = IF s.after = "leave" THEN {} ELSE saves \ {w}
        /\ own' = IF s.shows THEN [own EXCEPT ![w.to] = @ \cup {w.change}] ELSE own
        /\ job' = IF s.starts THEN [job EXCEPT !.seen = "running", !.misses = 0] ELSE job
        /\ \/ /\ s.after = "reload"
              /\ Asks(w.at)
              /\ UNCHANGED <<due, left>>
           \/ /\ s.after = "patch"
              /\ shown' = IF w.to \in shown.of THEN [shown EXCEPT !.has = @ \cup {w.change}]
                          ELSE shown
              /\ UNCHANGED <<loading, failed, asks, due, left>>
           \/ /\ s.after = "leave"
              /\ left' = TRUE /\ asks' = <<>> /\ loading' = FALSE /\ due' = FALSE
              /\ UNCHANGED <<shown, failed>>
           \/ /\ s.after = "later"
              /\ due' = TRUE
              /\ UNCHANGED <<shown, loading, failed, asks, left>>
           \/ /\ s.after = "nothing"
              /\ UNCHANGED <<shown, loading, failed, asks, due, left>>
        /\ UNCHANGED <<page, key, missed, server, count>>

NotSaved ==
    \E w \in saves :
        /\ w.reply = "lost"
        /\ saves' = saves \ {w}
        /\ shown' = IF SaveOf[w.what].undo THEN w.was ELSE shown
        /\ UNCHANGED <<page, key, loading, failed, missed, due, asks, server, own, count,
                       job, left>>

-----------------------------------------------------------------------------
Watching == job.seen # "none" /\ job.seen \notin Watch.ends

\* The job ends in the backend.
JobEnds ==
    /\ job.at = "running"
    /\ \E r \in Watch.results : job' = [job EXCEPT !.at = r]
    /\ UNCHANGED <<page, key, shown, loading, failed, missed, due, asks, saves, server, own,
                   count, left>>

Poll ==
    /\ Watching /\ ~left
    /\ job' = [job EXCEPT !.seen = job.at, !.misses = 0]
    /\ UNCHANGED <<page, key, shown, loading, failed, missed, due, asks, saves, server, own,
                   count, left>>

\* Mutant: gives up one failure too late.
M_PollFailsOnceMore ==
    /\ Watching /\ ~left /\ Watch.gives
    /\ job' = IF job.misses > MaxMisses
              THEN [job EXCEPT !.seen = "failed", !.misses = 0]
              ELSE [job EXCEPT !.misses = @ + 1]
    /\ UNCHANGED <<page, key, shown, loading, failed, missed, due, asks, saves, server, own,
                   count, left>>

\* A poll fails; some panels give up in the end.
PollFails ==
    /\ Watching /\ ~left /\ Watch.gives
    /\ job' = IF job.misses + 1 = MaxMisses
              THEN [job EXCEPT !.seen = "failed", !.misses = 0]
              ELSE [job EXCEPT !.misses = @ + 1]
    /\ UNCHANGED <<page, key, shown, loading, failed, missed, due, asks, saves, server, own,
                   count, left>>

Next ==
    \/ ListFails \/ \E k \in Keys : Select(k)
    \/ Timer \/ Again \/ More
    \/ Serve \/ Lose \/ Arrive
    \/ \E n \in Offered \cap DOMAIN SaveOf : Press(n)
    \/ ServeSave \/ RefuseSave \/ LoseSave \/ Saved \/ NotSaved
    \/ JobEnds \/ Poll \/ PollFails

Spec == Init /\ [][Next]_vars

\* Requests end, by the browser's own timeout at the latest; timers run; an
\* import ends and its status is readable.  The user need not do anything.
FairSpec ==
    /\ Spec
    /\ WF_vars(Timer) /\ WF_vars(Serve \/ Lose) /\ WF_vars(Arrive)
    /\ WF_vars(JobEnds) /\ WF_vars(Poll)

-----------------------------------------------------------------------------
(***************************************************************************)
(* What the pages promise.  Each property names the pages it does not hold *)
(* for; their traces are described in the README.                          *)
(***************************************************************************)

\* Pages that keep a failed load and an empty answer apart, and ask at once.
Candid == {"sync", "mappings", "push_history"}

\* A page says that there is nothing (no jobs, no suppliers, never pushed) only
\* when the backend has said so of what is selected now, not because a load
\* failed, is still on its way or was for something selected before.
EmptyMeansEmpty == page \in Candid /\ "nothing" \in Screen => shown.of = {key}

\* The same of the pricing rules: the page says "No pricing rules yet" only of
\* a storefront whose rules it has been given.
NoRulesMeansNoRules == page = "markup" /\ "nothing" \in Screen => shown.of = {key}

AtRest == ~left /\ asks = <<>> /\ saves = {} /\ ~due

\* Pages that make answers to earlier questions void.
Guarded == {"sync", "sync_health", "quote"}
\* Pages that load with the selection of an earlier moment: the handler that
\* reloads after its await, and the button that appends rows.
Belated == {"notifications", "setup", "markup", "products"}

\* When everything has arrived, what is on the screen belongs to what is
\* selected: on pages with a guard in whatever order the answers came, on the
\* others when no answer was overtaken by a later one.
ShowsTheSelected ==
    AtRest /\ ~missed /\ page \notin Belated /\ (page \in Guarded \/ ~shown.old)
        => shown.of \subseteq {key}

\* Pages that update the screen in place beside a load that was sent before.
Patched == {"notifications", "products", "branding", "options", "setup", "catalog",
            "connection", "supplier", "decoration"}

\* When everything has arrived, a change that the user was told is saved can
\* be seen in what is on the screen, unless the last load failed or was
\* overtaken: the reload after a save is neither left out nor too early.
OwnChangeShown ==
    AtRest /\ ~missed /\ ~shown.old /\ page \notin Patched
        => \A k \in shown.of : own[k] \subseteq shown.has

\* Pages that send all they show, though it may belong to something else, be
\* blank still, or be older than another save of theirs.
Sweeping == {"setup", "branding", "decoration", "connection", "sanmar"}

\* No save undoes what was stored before it: a form that sends the whole of
\* what it shows (customers/[id], the 4Over mapping) shows what is stored.
NothingOverwritten ==
    [][page \notin Sweeping => \A k \in Keys : server[k] \subseteq server'[k]]_vars

\* Pages whose "Loading..." is shown for want of content, not by a flag.
Waiting == {"sanmar", "fourover"}

\* A spinner goes away, whether or not there is an answer, unless the user
\* selects something else meanwhile.
SpinnerEnds ==
    \A k \in Keys : (key = k /\ page \notin Waiting /\ "spinner" \in Screen)
                        ~> ("spinner" \notin Screen \/ key # k)

\* A page stops watching an import once it has ended, although polls fail;
\* but for the 4Over panel, which does not know how its imports end.
WatchingEnds == (Watching /\ page # "fourover") ~> (~Watching \/ left)

-----------------------------------------------------------------------------
(***************************************************************************)
(* Why the safety properties hold: the inductive invariant of the proofs.  *)
(***************************************************************************)
Sent == 1..Len(asks)
Handlers == UNION {View[p].offers : p \in DOMAIN View}

\* The load that was sent last has been answered, and not by a failure.
Answered == ~left /\ ~due /\ ~missed /\ \A i \in Sent : asks[i].late

\* Loads are overtaken in the order in which they were sent.
InOrder ==
    /\ \A i, j \in Sent : i < j /\ asks[j].late => asks[i].late
    /\ L.more \/ \A i \in Sent : ~asks[i].more

\* A page saves what its panels offer; one without a selection has but one.
OwnHandlers == \A w \in saves : w.what \in Handlers
OneSelection ==
    ~L.keyed => /\ key = First /\ shown.of \subseteq {First}
                /\ \A i \in Sent : asks[i].key = First
                /\ \A w \in saves : w.at = First /\ w.to = First /\ w.was.of \subseteq {First}

\* The last load is one for the selection, and so is what it brings.
LoadsTheSelected ==
    page \notin Belated =>
        /\ ~due => \A i \in Sent : i = Len(asks) /\ ~asks[i].late => asks[i].key = key
        /\ page \in Guarded => \A i \in Sent : asks[i].key = key
        /\ Answered /\ (page \in Guarded \/ ~shown.old) => shown.of \subseteq {key}

\* A candid page without a spinner and an error shows an answer for its selection.
Admits == page \in Candid /\ ~loading /\ ~failed => shown.of = {key}

\* Pages that load once and offer their handlers when the answer has come.
Lone == {"archived", "users", "signup", "customer", "fourover", "sanmar"}
LoadsOnce ==
    page \in Lone =>
        /\ ~due /\ Len(asks) <= 1
        /\ asks # <<>> => /\ saves = {} /\ \A k \in Keys : own[k] = {}
                          /\ shown = Blank /\ (loading \/ L.spins = "never")
        /\ \A w \in saves : SaveOf[w.what].ahead => w.change \in shown.has

\* The whole of what these pages show is at least what is stored.
Entire == {"customer", "fourover"}
ShowsAll ==
    page \in Entire =>
        /\ shown.of # {} => server[First] \subseteq shown.has
        /\ \A i \in Sent : asks[i].reply.is = "content"
                             => server[First] \subseteq asks[i].reply.has
        /\ \A w \in saves : SaveOf[w.what].whole =>
               /\ w.body \subseteq shown.has
               /\ w.reply = "open" => server[First] \subseteq w.body
        /\ \A v, w \in saves : SaveOf[v.what].whole /\ SaveOf[w.what].whole => v = w

\* A change that the user was told is saved is stored, and the last load
\* brings it, or has brought it.
Stored ==
    page \notin Sweeping =>
        /\ \A k \in Keys : own[k] \subseteq server[k]
        /\ \A w \in saves : w.reply = "done" /\ SaveOf[w.what].shows
                              => w.change \in server[w.to]
BringsChanges ==
    page \notin Patched =>
        /\ \A i \in Sent : i = Len(asks) /\ ~asks[i].late /\ asks[i].reply.is = "content"
                             => own[asks[i].key] \subseteq asks[i].reply.has
        /\ Answered /\ ~shown.old => \A k \in shown.of : own[k] \subseteq shown.has

Bodies == \A w \in saves : SaveOf[w.what].whole => w.change \in w.body

IndInv ==
    /\ TypeOK /\ InOrder /\ OwnHandlers /\ OneSelection /\ LoadsTheSelected
    /\ Admits /\ LoadsOnce /\ ShowsAll /\ Bodies /\ Stored /\ BringsChanges
=============================================================================
